---- MODULE Spec2Model ----
(***************************************************************************)
(* Model of siml's training orchestration: siml.trainer.Trainer (settings  *)
(* reconciliation, pretrain / restart loading, the ignite-driven epoch     *)
(* loop with logging, snapshots and early stopping) and the snapshot       *)
(* selection of siml.trainer.Trainer and siml.siml_manager.SimlManager.    *)
(*                                                                         *)
(* Representation                                                          *)
(*   - a path is the name of a directory; fs maps it to what it holds      *)
(*   - a loss is an integer x: the binary double nearest to x / 1e7;        *)
(*     NaN is the float nan                                                *)
(*   - a state_dict is a sequence of [key, value] (an OrderedDict)         *)
(*   - an optional number is a sequence of length 0 or 1                   *)
(***************************************************************************)
EXTENDS Integers, Sequences, FiniteSets, TLC

\* ------------------------------------------------------------------ bounds
\* n_epoch of the runs explored
MaxEpoch == 3
\* samples in the training data set
TrainSamples == 2
\* elements (rows) of every sample
SampleElements == 3
\* time steps of every sample of a time series
TimeSteps == 2
\* features of the targets, at most
MaxOutputDim == 2

\* ------------------------------------------------------------- basic values
None == "None"
\* float('nan'): the one integer whose negation is not an integer of the
\* model, so that no loss and no score (a negated loss) is mistaken for it
NaN == -2147483647 - 1

IsNaN(x) == x = NaN

Min(S) == CHOOSE x \in S : \A y \in S : x <= y
Max(S) == CHOOSE x \in S : \A y \in S : x >= y
CeilDiv(a, b) == (a + b - 1) \div b

\* the weight of the sixth significant digit of x > 0
SixthDigitUnit(x) ==
    IF x < 1000000 THEN 1
    ELSE IF x < 10000000 THEN 10
    ELSE IF x < 100000000 THEN 100
    ELSE IF x < 1000000000 THEN 1000
    ELSE 10000

\* the power of two that brings x / 1e7 into [1, 2), for x > 0
RECURSIVE BinaryShift(_, _)
BinaryShift(x, s) ==
    IF x < 10000000
    THEN IF x * 2 >= 10000000 THEN s + 1 ELSE BinaryShift(x * 2, s + 1)
    ELSE IF x < 20000000 THEN s ELSE BinaryShift(x \div 2, s - 1)

\* (r * 2^e) % 1e7
RECURSIVE DoubleMod(_, _)
DoubleMod(r, e) == IF e = 0 THEN r ELSE DoubleMod((2 * r) % 10000000, e - 1)

\* f"{loss:.5e}" and pd.read_csv of the text: the float is rounded to six
\* significant digits, nan gives "nan".  The digits are those of the binary
\* double nearest to x / 1e7 (53 bits): a value halfway between two texts
\* goes down when the double lies below it, up when it lies above, and to the
\* even digit when the double is the value itself.
Format5e(x) ==
    IF IsNaN(x) THEN NaN
    ELSE IF x = 0 THEN 0
    ELSE
    LET a == IF x < 0 THEN 0 - x ELSE x
        U == SixthDigitUnit(a)
        q == a \div U
        r == a % U
        rem == DoubleMod(a % 10000000, 52 + BinaryShift(a, 0))
        up == IF 2 * r # U THEN 2 * r > U
              ELSE IF rem = 0 THEN q % 2 = 1
              ELSE rem > 5000000
        v == IF up THEN (q + 1) * U ELSE q * U
    IN  IF x < 0 THEN 0 - v ELSE v

\* ------------------------------------------------------------------ models
ModelNames == {"mlp2", "mlp3"}

\* keys of Network(setting.model).state_dict(), in order
StateDictKeys(m) ==
    IF m = "mlp2" THEN <<"w0", "b0">> ELSE <<"w0", "b0", "w1">>

\* networks.Network(self.setting.model, self.setting.trainer): fresh parameters
NewNetwork(m) ==
    [i \in 1..Len(StateDictKeys(m)) |-> [key |-> StateDictKeys(m)[i], value |-> 0]]

\* torch.optim.Adam(self.model.parameters(), ...): no step taken yet
NewOptimizer == [step |-> 0]

\* k calls of optimizer.step(): every parameter moves, the i-th by i per step
OptimizerSteps(model, k) ==
    [i \in 1..Len(model) |-> [model[i] EXCEPT !.value = @ + i * k]]

\* --------------------------------------------------------------- file system
Dirs == {"pre", "prior", "out", "default"}

\* setting.TrainerSetting([], []).output_directory
DefaultOutputDirectory == "default"

NoDir == [exists |-> FALSE, yamls |-> <<>>, has_log |-> FALSE, log |-> <<>>,
          snapshots |-> <<>>]

\* the dictionary torch.save writes at a logging epoch
Checkpoint(epoch, validation_loss, model, optimizer) ==
    [epoch |-> epoch,
     validation_loss |-> validation_loss,
     model_state_dict |-> model,
     optimizer_state_dict |-> optimizer]

\* one line of log.csv as written and as read back
LogRow(epoch, train_loss, validation_loss) ==
    [epoch |-> epoch,
     train_loss |-> Format5e(train_loss),
     validation_loss |-> Format5e(validation_loss)]

\* a file snapshot_epoch_<epoch>.pth with its st_ctime
SnapshotFile(epoch, ctime, checkpoint) ==
    [epoch |-> epoch, ctime |-> ctime, checkpoint |-> checkpoint]

\* ------------------------------------------------------- snapshot selection
Ok(epoch) == [err |-> None, epoch |-> epoch]
Raise(msg) == [err |-> msg, epoch |-> 0]

\* df[column].idxmin(): the first row holding the smallest value that is not
\* NaN; <<>> when there is no such row (pandas then gives no usable index)
IdxMin(rows, column) ==
    LET valid == {i \in 1..Len(rows) : ~IsNaN(rows[i][column])}
    IN  IF valid = {} THEN <<>>
        ELSE LET least == Min({rows[i][column] : i \in valid})
             IN  <<Min({i \in valid : rows[i][column] = least})>>

\* path / f"snapshot_epoch_{df['epoch'].iloc[df[column].idxmin()]}.pth"
BestEpochFile(d, column) ==
    IF ~d.has_log THEN Raise("FileNotFoundError: log.csv")
    ELSE LET idx == IdxMin(d.log, column)
         IN  IF idx = <<>> THEN Raise("Error: idxmin of no value")
             ELSE Ok(d.log[idx[1]].epoch)

\* max(iterable, key=...): the first element, in iteration order, whose key is
\* the largest
FirstMaxIndex(keys) ==
    Min({i \in 1..Len(keys) : \A j \in 1..Len(keys) : keys[j] <= keys[i]})

\* Trainer._select_snapshot(path, method) on a directory: `latest` takes the
\* file with the largest st_ctime, `best` has no NaN fallback
Trainer_select_snapshot(d, method) ==
    IF ~d.exists THEN Raise("ValueError: path doesn't exist")
    ELSE IF method = "latest" THEN
        IF d.snapshots = <<>> THEN Raise("ValueError: max() arg is an empty sequence")
        ELSE Ok(d.snapshots[FirstMaxIndex(
                 [i \in 1..Len(d.snapshots) |-> d.snapshots[i].ctime])].epoch)
    ELSE IF method = "best" THEN BestEpochFile(d, "validation_loss")
    ELSE IF method = "train_best" THEN BestEpochFile(d, "train_loss")
    ELSE Raise("ValueError: Unknown snapshot choise method")

\* int(re.search(r'snapshot_epoch_(\d+)', str(p)).groups()[0]) for the file
\* snapshot_epoch_<epoch>.pth of a directory: the first match in the whole
\* path string; path_epoch is <<n>> when the directory's own path already
\* contains snapshot_epoch_<n>, else <<>>
SnapshotPathNumber(path_epoch, epoch) ==
    IF path_epoch # <<>> THEN path_epoch[1] ELSE epoch

\* SimlManager._select_snapshot(path, method) on a directory
SimlManager_select_snapshot(d, path_epoch, method) ==
    IF ~d.exists THEN Raise("ValueError: path doesn't exist")
    ELSE IF method = "latest" THEN
        IF d.snapshots = <<>> THEN Raise("ValueError: max() arg is an empty sequence")
        ELSE Ok(d.snapshots[FirstMaxIndex(
                 [i \in 1..Len(d.snapshots) |->
                     SnapshotPathNumber(path_epoch, d.snapshots[i].epoch)])].epoch)
    ELSE IF method = "best" THEN
        IF ~d.has_log THEN Raise("FileNotFoundError: log.csv")
        ELSE IF \E i \in 1..Len(d.log) : IsNaN(d.log[i].validation_loss)
             THEN BestEpochFile(d, "train_loss")
             ELSE BestEpochFile(d, "validation_loss")
    ELSE IF method = "train_best" THEN BestEpochFile(d, "train_loss")
    ELSE Raise("ValueError: Unknown snapshot choise method")

\* torch.load(path / snapshot_epoch_<epoch>.pth): <<checkpoint>>, or <<>> when
\* the directory has no such file
LoadSnapshot(d, epoch) ==
    LET hits == {i \in 1..Len(d.snapshots) : d.snapshots[i].epoch = epoch}
    IN  IF hits = {} THEN <<>> ELSE <<d.snapshots[Min(hits)].checkpoint>>

\* ------------------------------------------------------------------ settings
Fail(msg, s) == [err |-> msg, setting |-> s]
Done(s) == [err |-> None, setting |-> s]

\* a variant of UpdateSetting that keeps an output directory that exists
UpdateSettingKeepsOutput(s, path, only_model, f) ==
    IF ~f[path].exists THEN Fail("UnboundLocalError: yaml_file", s)
    ELSE IF Len(f[path].yamls) # 1 THEN Fail("ValueError: yaml files found", s)
    ELSE LET read == f[path].yamls[1]
         IN  Done(IF only_model THEN [s EXCEPT !.model = read.model] ELSE read)

\* Trainer._update_setting / SimlManager._update_setting (path, only_model)
\* with the file system f.  A path that is neither file nor directory leaves
\* yaml_file unbound.
UpdateSetting(s, path, only_model, f) ==
    IF ~f[path].exists THEN Fail("UnboundLocalError: yaml_file", s)
    ELSE IF Len(f[path].yamls) # 1 THEN Fail("ValueError: yaml files found", s)
    ELSE LET read == f[path].yamls[1]
             s1 == IF only_model THEN [s EXCEPT !.model = read.model] ELSE read
         IN  IF f[s1.trainer.output_directory].exists
             THEN Done([s1 EXCEPT !.trainer.output_directory = DefaultOutputDirectory])
             ELSE Done(s1)

\* Trainer._update_setting_if_needed / SimlManager._update_setting_if_needed.
\* The third branch repeats the first branch's condition, so it is never taken.
UpdateSettingIfNeeded(s, f) ==
    IF s.trainer.restart_directory # None THEN
        LET restart_directory == s.trainer.restart_directory
            r == UpdateSetting(s, s.trainer.restart_directory, FALSE, f)
        IN  IF r.err # None THEN r
            ELSE Done([r.setting EXCEPT
                          !.trainer.restart_directory = restart_directory])
    ELSE IF s.trainer.pretrain_directory # None THEN
        LET pretrain_directory == s.trainer.pretrain_directory
            r == UpdateSetting(s, s.trainer.pretrain_directory, TRUE, f)
        IN  IF r.err # None THEN r
            ELSE Done([r.setting EXCEPT
                          !.trainer.pretrain_directory = pretrain_directory])
    ELSE IF s.trainer.restart_directory # None
            /\ s.trainer.pretrain_directory # None THEN
        Fail("ValueError: Restart directory and pretrain directory cannot be specified at the same time.", s)
    ELSE Done(s)

\* Trainer._determine_element_wise
DetermineElementWise(t) ==
    IF t.time_series THEN FALSE
    ELSE IF t.element_wise \/ t.simplified_model THEN TRUE
    ELSE FALSE

\* Trainer._create_loss_function(pad=None): the loss function returned
CreateLossFunction(t, element_wise) ==
    IF element_wise \/ t.batch_size = 1 THEN "loss_function_without_padding"
    ELSE IF t.time_series THEN "loss_function_time_with_padding"
    ELSE "loss_function_with_padding"

\* a variant of GenerateTrainerBatchSize without the test of batch_size
\* against element_batch_size
GenerateTrainerAnyBatchSize(t, element_wise) ==
    IF element_wise /\ t.element_batch_size > 0
    THEN [err |-> None, batch_size |-> t.element_batch_size]
    ELSE IF element_wise /\ ~t.simplified_model
    THEN [err |-> "ValueError: element_batch_size < 1 while element_wise is set to be true.",
          batch_size |-> 0]
    ELSE [err |-> None, batch_size |-> t.batch_size]

\* the batch size checks of Trainer._generate_trainer: the error raised, or
\* None and the data loader's batch size
GenerateTrainerBatchSize(t, element_wise) ==
    IF element_wise THEN
        IF t.element_batch_size > 0
        THEN [err |-> None, batch_size |-> t.element_batch_size]
        ELSE IF t.simplified_model
             THEN [err |-> None, batch_size |-> t.batch_size]
             ELSE [err |-> "ValueError: element_batch_size < 1 while element_wise is set to be true.",
                   batch_size |-> 0]
    ELSE IF t.element_batch_size > 1 /\ t.batch_size > 1
         THEN [err |-> "ValueError: batch_size cannot be > 1 when element_batch_size > 1.",
               batch_size |-> 0]
         ELSE [err |-> None, batch_size |-> t.batch_size]

\* ------------------------------------------------------------- the Trainer
\* A Trainer object: self.setting, self.optuna_trial and what _prepare_training
\* sets.  model = <<>>: self.model not set; engines: data loaders, optimizer
\* and ignite engines exist; epoch = <<>>: self.epoch not set.  err is the
\* exception that left the last call, None when it returned.
NewTrainer(s, trial) ==
    [err |-> None, setting |-> s, optuna_trial |-> trial, model |-> <<>>,
     optimizer |-> NewOptimizer, epoch |-> <<>>, loss |-> None,
     element_wise |-> FALSE, batch_size |-> 0, engines |-> FALSE,
     pretrain_loaded |-> FALSE, restart_loaded |-> FALSE]

Raised(t, msg) == [t EXCEPT !.err = msg]

\* model.load_state_dict(state_dict), strict.  torch copies every entry of
\* state_dict whose key the model has, and only then raises RuntimeError for
\* the keys that are missing or unexpected: model is the model afterwards.
LoadStateDict(model, state_dict) ==
    LET keys == {state_dict[j].key : j \in 1..Len(state_dict)}
        copied == [i \in 1..Len(model) |->
                     IF model[i].key \in keys
                     THEN LET j == CHOOSE j \in 1..Len(state_dict) :
                                       state_dict[j].key = model[i].key
                          IN  [key |-> model[i].key, value |-> state_dict[j].value]
                     ELSE model[i]]
    IN  [err |-> IF {model[i].key : i \in 1..Len(model)} = keys
                 THEN None
                 ELSE "RuntimeError: Error(s) in loading state_dict",
         model |-> copied]

\* a variant of ZipStateDict that keeps the keys of the checkpoint
KeepStateDict(model, state_dict) == state_dict

\* OrderedDict({key: value for key, value in zip(
\*     self.model.state_dict().keys(), checkpoint['model_state_dict'].values())})
ZipStateDict(model, state_dict) ==
    [i \in 1..Len(model) |-> [key |-> model[i].key, value |-> state_dict[i].value]]

\* Trainer._load_pretrained_model_if_needed(model_file=...): model_file is
\* <<>> for None, else <<[dir |-> d, epoch |-> e]>>, the snapshot file of epoch
\* e in directory d (as a path or as an open handle)
LoadPretrainedModelIfNeeded(t, f, model_file) ==
    IF t.setting.trainer.pretrain_directory = None /\ model_file = <<>> THEN t
    ELSE LET d == IF model_file # <<>> THEN f[model_file[1].dir]
                  ELSE f[t.setting.trainer.pretrain_directory]
             sel == IF model_file # <<>> THEN Ok(model_file[1].epoch)
                    ELSE Trainer_select_snapshot(
                             d, t.setting.trainer.snapshot_choise_method)
             ck == LoadSnapshot(d, sel.epoch)
         IN  IF sel.err # None THEN Raised(t, sel.err)
             ELSE IF ck = <<>> THEN Raised(t, "FileNotFoundError: snapshot")
             ELSE IF Len(t.model) # Len(ck[1].model_state_dict)
                  THEN Raised(t, "ValueError: Model parameter length invalid")
             ELSE [t EXCEPT !.model = ZipStateDict(t.model, ck[1].model_state_dict),
                            !.pretrain_loaded = TRUE]

\* Trainer._load_restart_model_if_needed(): model, optimizer and self.epoch
\* are set before checkpoint['loss'] is read
LoadRestartModelIfNeeded(t, f) ==
    IF t.setting.trainer.restart_directory = None THEN t
    ELSE LET d == f[t.setting.trainer.restart_directory]
             sel == Trainer_select_snapshot(d, "latest")
             ck == LoadSnapshot(d, sel.epoch)
         IN  IF sel.err # None THEN Raised(t, sel.err)
             ELSE IF LoadStateDict(t.model, ck[1].model_state_dict).err # None
                  THEN Raised(
                      [t EXCEPT !.model =
                          LoadStateDict(t.model, ck[1].model_state_dict).model],
                      LoadStateDict(t.model, ck[1].model_state_dict).err)
             ELSE LET t1 == [t EXCEPT
                                !.model = LoadStateDict(t.model, ck[1].model_state_dict).model,
                                !.optimizer = ck[1].optimizer_state_dict,
                                !.epoch = <<ck[1].epoch>>,
                                !.restart_loaded = TRUE]
                  IN  IF "loss" \in DOMAIN ck[1]
                      THEN [t1 EXCEPT !.loss = ck[1]["loss"]]
                      ELSE Raised(t1, "KeyError: 'loss'")

\* Trainer._generate_trainer: batch size checks, data loaders, optimizer,
\* engines and handlers
GenerateTrainer(t) ==
    LET b == GenerateTrainerBatchSize(t.setting.trainer, t.element_wise)
    IN  IF b.err # None THEN Raised(t, b.err)
        ELSE [t EXCEPT !.batch_size = b.batch_size,
                       !.optimizer = NewOptimizer,
                       !.engines = TRUE]

\* Trainer._prepare_training up to the GPU checks (no GPU, gpu_id = -1)
DefineModel(t) ==
    LET ew == DetermineElementWise(t.setting.trainer)
        t1 == [t EXCEPT !.model = NewNetwork(t.setting.model),
                        !.element_wise = ew,
                        !.loss = CreateLossFunction(t.setting.trainer, ew)]
    IN  IF ~t1.optuna_trial /\ t1.setting.trainer.prune
        THEN [t1 EXCEPT !.setting.trainer.prune = FALSE]
        ELSE t1

\* Trainer._prepare_training
PrepareTraining(t, f) ==
    LET t1 == GenerateTrainer(DefineModel(t))
        t2 == IF t1.err # None THEN t1 ELSE LoadPretrainedModelIfNeeded(t1, f, <<>>)
    IN  IF t2.err # None THEN t2 ELSE LoadRestartModelIfNeeded(t2, f)

\* Inferer._prepare_inference(model): model.kind is "none" (None), "handle"
\* (an open binary file), "file" (the path of a snapshot file), "path" (any
\* other str or Path: a directory, or nothing) or "other" (an object of
\* another type); file and handle stand for the snapshot file of model.epoch
\* in model.dir.  A path that is neither file nor directory leaves model_file
\* unbound, which the call after the construction of the Network reads.
PrepareInference(t, f, model) ==
    IF model.kind = "none" /\ t.setting.trainer.pretrain_directory = None
    THEN Raised(t, "ValueError: No pretrain directory is specified for inference.")
    ELSE IF model.kind = "other"
    THEN Raised(t, "ValueError: model is neither file, directory, nor buffer.")
    ELSE
    LET m == IF model.kind = "none"
             THEN [kind |-> "path", dir |-> t.setting.trainer.pretrain_directory,
                   epoch |-> 0]
             ELSE model
        model_file == IF m.kind = "path" THEN <<>>
                      ELSE <<[dir |-> m.dir, epoch |-> m.epoch]>>
        r == IF m.kind = "path" /\ f[m.dir].exists
             THEN UpdateSettingIfNeeded(
                      [t.setting EXCEPT !.trainer.pretrain_directory = m.dir], f)
             ELSE Done(t.setting)
    IN  IF m.kind = "path" /\ ~f[m.dir].exists
        THEN Raised([t EXCEPT !.model = NewNetwork(t.setting.model)],
                    "UnboundLocalError: model_file")
        ELSE IF r.err # None THEN Raised([t EXCEPT !.setting = r.setting], r.err)
        ELSE LET t1 == [t EXCEPT !.setting = r.setting,
                                 !.model = NewNetwork(r.setting.model)]
                 t2 == LoadPretrainedModelIfNeeded(t1, f, model_file)
             IN  IF t2.err # None THEN t2
                 ELSE [t2 EXCEPT
                          !.element_wise = DetermineElementWise(t2.setting.trainer),
                          !.loss = "loss_function_without_padding"]

\* ------------------------------------------------------------------- inputs
Methods == {"best", "latest", "train_best"}

\* losses an evaluation may give: 0.2, nan and 0.5000005, which the log holds
\* as 5.00000e-01 (the double lies below the decimal value)
ValidationLosses == {2000000, 5000005, NaN}
TrainLosses == {3000000}

BaseTrainerSetting ==
    [restart_directory |-> None, pretrain_directory |-> None,
     output_directory |-> "out", snapshot_choise_method |-> "best",
     prune |-> FALSE, n_epoch |-> MaxEpoch, log_trigger_epoch |-> 1,
     stop_trigger_epoch |-> 1, patience |-> 2, batch_size |-> 1,
     element_batch_size |-> -1, element_wise |-> FALSE,
     simplified_model |-> FALSE, time_series |-> FALSE, output_dim |-> 1]

\* settings that differ in what is transferred from an earlier run
TransferSettings ==
    {[model |-> m,
      trainer |-> [BaseTrainerSetting EXCEPT
                      !.restart_directory = r, !.pretrain_directory = p,
                      !.output_directory = o, !.snapshot_choise_method = c,
                      !.prune = pr]] :
        m \in ModelNames, r \in {None, "prior"}, p \in {None, "pre"},
        o \in {"out", "prior"}, c \in Methods, pr \in BOOLEAN}

\* settings of a run from scratch that differ in cadence and batching
CadenceSettings ==
    {[model |-> "mlp2",
      trainer |-> [BaseTrainerSetting EXCEPT
                      !.log_trigger_epoch = l, !.stop_trigger_epoch = st,
                      !.patience = pa]] :
        l \in {1, 2}, st \in {1, 2, 3}, pa \in {1, 2}}

\* output_dim is the number of features of y: the dims of
\* setting.trainer.outputs together.  Only the element-batch update of a run
\* that is not a time series reads it, so the other runs have one feature.
BatchSettings ==
    {s \in {[model |-> "mlp2",
             trainer |-> [BaseTrainerSetting EXCEPT
                             !.batch_size = b, !.element_batch_size = eb,
                             !.element_wise = ew, !.time_series = ts,
                             !.output_dim = od]] :
               b \in {1, 2}, eb \in {-1, 1, 2, SampleElements + 1},
               ew \in BOOLEAN, ts \in BOOLEAN, od \in 1..MaxOutputDim} :
        \/ s.trainer.output_dim = 1
        \/ (/\ s.trainer.element_batch_size > 0 /\ ~s.trainer.element_wise
            /\ ~s.trainer.time_series)}

\* the layouts of the targets y of a mini-batch that the collate function of
\* the data loader may give: "joined" has the elements of all samples of the
\* batch along one axis, (element, feature), as loss_function_with_padding
\* compares it with the joined predictions; "padded" has the axes of y_pred.
\* A time series has the axes of y_pred, as loss_function_time_with_padding
\* indexes it.  Only the element-batch update reads y itself, so the other
\* runs are explored with one layout.
TargetLayouts(s) ==
    IF s.trainer.time_series THEN {"padded"}
    ELSE IF s.trainer.element_batch_size > 0 /\ ~s.trainer.element_wise
    THEN {"joined", "padded"}
    ELSE {"joined"}

CallerSettings == TransferSettings \cup CadenceSettings \cup BatchSettings

\* settings that restart the run whose snapshots directory d holds
RestartSettings(d) ==
    [model |-> "mlp2",
     trainer |-> [BaseTrainerSetting EXCEPT !.restart_directory = d]]

\* a file system without any directory
NoFiles == [d \in Dirs |-> NoDir]

\* the model of a run with settings s after `epoch` epochs of one optimizer
\* step per sample; f is the file system the run started in: the run begins
\* with the model _prepare_training leaves, which holds the parameters of the
\* snapshot chosen in s.trainer.pretrain_directory when that is set
TrainedModel(s, f, epoch) ==
    OptimizerSteps(PrepareTraining(NewTrainer(s, FALSE), f).model,
                   epoch * TrainSamples)

\* the directory an earlier two-epoch run with these settings, started in the
\* file system f, left behind; ctimes gives the st_ctime of the two snapshot
\* files
EarlierRun(s, f, losses, ctimes) ==
    [exists |-> TRUE,
     yamls |-> <<s>>,
     has_log |-> TRUE,
     log |-> [e \in 1..2 |-> LogRow(e, losses[e][1], losses[e][2])],
     snapshots |-> [e \in 1..2 |->
         SnapshotFile(e, ctimes[e],
             Checkpoint(e, losses[e][2], TrainedModel(s, f, e),
                        [step |-> e * TrainSamples]))]]

\* an earlier run's directory whose settings.yml was edited afterwards to
\* declare the other model
OtherModel(m) == IF m = "mlp2" THEN "mlp3" ELSE "mlp2"
EditedRun(s, f, losses, ctimes) ==
    [EarlierRun(s, f, losses, ctimes) EXCEPT
        !.yamls = <<[s EXCEPT !.model = OtherModel(s.model)]>>]

\* an earlier run's directory whose checkpoints also hold the entry 'loss'
\* that _load_restart_model_if_needed reads (a value, not a function)
LegacyRun(s, f, losses, ctimes) ==
    [EarlierRun(s, f, losses, ctimes) EXCEPT
        !.snapshots = [e \in 1..2 |->
            SnapshotFile(e, ctimes[e],
                [epoch |-> e, validation_loss |-> losses[e][2],
                 model_state_dict |-> TrainedModel(s, f, e),
                 optimizer_state_dict |-> [step |-> e * TrainSamples],
                 loss |-> "checkpoint['loss']"])]]

EarlierSetting(m, out, pretrain) ==
    [model |-> m,
     trainer |-> [BaseTrainerSetting EXCEPT !.n_epoch = 2,
                     !.output_directory = out, !.pretrain_directory = pretrain]]

\* what the earlier runs logged: <<train_loss, validation_loss>> per epoch
LossesA == << <<4000000, 5000000>>, <<3000000, 2000000>> >>
LossesB == << <<3000000, 2000000>>, <<4000000, NaN>> >>

\* the directories found when the program starts: "pre" and "prior" hold
\* earlier runs; "prior" was possibly pretrained from "pre" (its model section
\* is then that of "pre") and possibly copied since, so that its files'
\* st_ctime no longer follows the epochs, or its settings.yml was edited to
\* declare the other model, or its checkpoints hold the entry 'loss'
InitialFileSystems ==
    {LET pre == [NoFiles EXCEPT
                    !["pre"] = EarlierRun(EarlierSetting(pm, "pre", None),
                                          NoFiles, pl, <<1, 2>>)]
     IN  [pre EXCEPT
             !["prior"] = EarlierRun(
                 EarlierSetting(IF pp = None THEN "mlp2" ELSE pm, "prior", pp),
                 pre, LossesA, ct)] :
        pm \in ModelNames, pl \in {LossesA, LossesB}, pp \in {None, "pre"},
        ct \in {<<3, 4>>, <<4, 3>>}}
    \cup
    {LET pre == [NoFiles EXCEPT
                    !["pre"] = EarlierRun(EarlierSetting("mlp2", "pre", None),
                                          NoFiles, LossesA, <<1, 2>>)]
     IN  [pre EXCEPT
             !["prior"] = EditedRun(EarlierSetting(em, "prior", None),
                                    pre, LossesA, <<3, 4>>)] :
        em \in ModelNames}
    \cup
    {LET pre == [NoFiles EXCEPT
                    !["pre"] = EarlierRun(EarlierSetting("mlp2", "pre", None),
                                          NoFiles, LossesA, <<1, 2>>)]
     IN  [pre EXCEPT
             !["prior"] = LegacyRun(EarlierSetting("mlp2", "prior", None),
                                    pre, LossesA, <<3, 4>>)]}

\* --------------------------------------------------------------- variables
VARIABLES
    fs,        \* the file system: directory -> its content
    pc,        \* where the session is: new, constructed, prepared, running,
               \* finished (trainer.run returned), done, failed, pruned
    caller,    \* the settings and optuna_trial the caller passed, and the
               \* layout of the targets its data loader gives
    tr,        \* the Trainer object
    engine,    \* self.trainer.state: epoch, batches done in it, should_terminate
    stopper,   \* the EarlyStopping handler: best_score, counter
    metrics,   \* self.evaluator.state.metrics['loss'], <<>> before any run
    steps,     \* optimizer steps of the last update_model call
    result,    \* what train() returned, <<>> before
    resumed,   \* the session is a restart of the run an earlier session left
    sel,       \* snapshot selection on its own: input and result
    inf,       \* the model argument of Inferer._prepare_inference
    call       \* a function called on its own: its arguments and result

vars == <<fs, pc, caller, tr, engine, stopper, metrics, steps, result, resumed, sel, inf, call>>

NoSel == [phase |-> "off"]
NoInf == [kind |-> "off", dir |-> None, epoch |-> 0]
NoCall == [fn |-> "off"]
NoCaller == [setting |-> None, optuna_trial |-> FALSE, y_layout |-> None]
NewEngine == [epoch |-> 0, batch |-> 0, should_terminate |-> FALSE]
NewStopper == [best_score |-> <<>>, counter |-> 0]

Init ==
    /\ fs \in InitialFileSystems
    /\ pc = "new"
    /\ caller = NoCaller
    /\ tr = NewTrainer(None, FALSE)
    /\ engine = NewEngine
    /\ stopper = NewStopper
    /\ metrics = <<>>
    /\ steps = 0
    /\ result = <<>>
    /\ resumed = FALSE
    /\ sel = NoSel
    /\ inf = NoInf
    /\ call = NoCall

\* Trainer.__init__(main_setting, optuna_trial=...)
Construct ==
    /\ pc = "new"
    /\ \E s \in CallerSettings, trial \in BOOLEAN :
        LET r == UpdateSettingIfNeeded(s, fs)
        IN  /\ \E y_layout \in TargetLayouts(r.setting) :
                  caller' = [setting |-> s, optuna_trial |-> trial,
                             y_layout |-> y_layout]
            /\ tr' = [NewTrainer(r.setting, trial) EXCEPT !.err = r.err]
            /\ pc' = IF r.err = None THEN "constructed" ELSE "failed"
    /\ UNCHANGED <<fs, engine, stopper, metrics, steps, result, resumed, sel, inf, call>>

\* a direct call of Trainer._prepare_training() on a constructed Trainer
PrepareTrainingOnly ==
    /\ pc = "constructed"
    /\ tr' = PrepareTraining(tr, fs)
    /\ pc' = IF tr'.err = None THEN "prepared" ELSE "failed"
    /\ UNCHANGED <<fs, caller, engine, stopper, metrics, steps, result, resumed, sel, inf, call>>

\* the model arguments a caller may pass to Inferer._prepare_inference
InferenceModels(f) ==
    {[kind |-> k, dir |-> None, epoch |-> 0] : k \in {"none", "other"}}
        \cup {[kind |-> "path", dir |-> d, epoch |-> 0] : d \in {"pre", "prior", "out"}}
        \cup UNION {{[kind |-> k, dir |-> d, epoch |-> f[d].snapshots[i].epoch] :
                        k \in {"file", "handle"}, i \in 1..Len(f[d].snapshots)} :
                    d \in {"pre", "prior"}}

\* Inferer._prepare_inference(model) on a constructed Inferer (Inferer has the
\* constructor of Trainer)
InferPrepare ==
    /\ pc = "constructed"
    /\ ~resumed
    /\ \E model \in InferenceModels(fs) :
          /\ inf' = model
          /\ tr' = PrepareInference(tr, fs, model)
    /\ pc' = IF tr'.err = None THEN "inference" ELSE "failed"
    /\ UNCHANGED <<fs, caller, engine, stopper, metrics, steps, result, resumed, sel, call>>

\* ---------------------------------------------------------- the epoch loop
\* len(self.train_loader): ElementWiseDataset holds one item per element
TrainLoaderLength(t) ==
    CeilDiv(IF t.element_wise THEN TrainSamples * SampleElements ELSE TrainSamples,
            t.batch_size)

\* samples in the batch after `batch` batches of the epoch
BatchSamples(t, batch) ==
    Min({t.batch_size,
         (IF t.element_wise THEN TrainSamples * SampleElements ELSE TrainSamples)
             - batch * t.batch_size})

\* self.loss(y_pred, y) without original_shapes is a TypeError for the
\* padding losses, whose third parameter has no default
LossNeedsOriginalShapes(loss) ==
    loss \in {"loss_function_with_padding", "loss_function_time_with_padding"}

\* the functions _create_loss_function returns; self.loss(y_pred, y) is a
\* TypeError when self.loss holds anything else
LossFunctions ==
    {"loss_function_without_padding", "loss_function_with_padding",
     "loss_function_time_with_padding"}

\* update_function of Trainer._create_supervised_trainer
UsesElementBatch(t) ==
    ~t.element_wise /\ t.setting.trainer.element_batch_size > 0

\* the shape of y_pred for a batch of n samples: (sample, element, feature),
\* and (time, sample, element, feature) for a time series
PredictionShape(t, n) ==
    IF t.setting.trainer.time_series
    THEN <<TimeSteps, n, SampleElements, t.setting.trainer.output_dim>>
    ELSE <<n, SampleElements, t.setting.trainer.output_dim>>

\* the shape of y for a batch of n samples in the given layout
TargetShape(t, n, y_layout) ==
    IF y_layout = "joined" /\ ~t.setting.trainer.time_series
    THEN <<n * SampleElements, t.setting.trainer.output_dim>>
    ELSE PredictionShape(t, n)

\* optimizer.step() calls of update_with_element_batch on a batch of n
\* samples: zip(y_pred, y) pairs the slices along the first axis of each and
\* stops with the shorter one; torch.split cuts the first axis of every slice
\* into chunks of element_batch_size, and zip(split_y_pred, split_y) again
\* stops with the shorter one; there is one step per pair of chunks.
ElementBatchSteps(t, n, y_layout) ==
    LET y_pred == PredictionShape(t, n)
        y == TargetShape(t, n, y_layout)
        size == t.setting.trainer.element_batch_size
    IN  Min({y_pred[1], y[1]})
            * Min({CeilDiv(y_pred[2], size), CeilDiv(y[2], size)})

\* update_standard: one gradient of the loss of the batch, one step
update_standard(t) ==
    [t EXCEPT !.model = OptimizerSteps(@, 1), !.optimizer.step = @ + 1]

\* update_with_element_batch on a batch of n samples: every step follows the
\* gradient of the loss of the whole batch
update_with_element_batch(t, n, y_layout) ==
    [t EXCEPT !.model = OptimizerSteps(@, ElementBatchSteps(t, n, y_layout)),
              !.optimizer.step = @ + ElementBatchSteps(t, n, y_layout)]

\* optimizer.step() calls of one update_model call on a batch of n samples
UpdateSteps(t, n, y_layout) ==
    IF UsesElementBatch(t) THEN ElementBatchSteps(t, n, y_layout) ELSE 1

\* Trainer.train() up to the start of self.trainer.run
TrainStart ==
    /\ pc = "constructed"
    /\ LET out == tr.setting.trainer.output_directory
       IN  IF fs[out].exists
           THEN /\ tr' = Raised(tr, "FileExistsError: output_directory")
                /\ pc' = "failed"
                /\ fs' = fs
           ELSE LET made == [fs EXCEPT ![out] = [NoDir EXCEPT !.exists = TRUE]]
                    t == PrepareTraining(tr, made)
                IN  /\ tr' = t
                    /\ IF t.err # None
                       THEN /\ pc' = "failed"
                            /\ fs' = made
                       ELSE /\ pc' = "running"
                            /\ fs' = [made EXCEPT
                                   ![t.setting.trainer.output_directory] =
                                       [@ EXCEPT !.yamls = <<t.setting>>,
                                                 !.has_log = TRUE, !.log = <<>>]]
    /\ engine' = NewEngine
    /\ stopper' = NewStopper
    /\ metrics' = <<>>
    /\ UNCHANGED <<caller, steps, result, resumed, sel, inf, call>>

\* update_model on the next batch; the engine counts the epoch when it starts
UpdateModel ==
    /\ pc = "running"
    /\ engine.batch < TrainLoaderLength(tr)
    /\ IF tr.loss \notin LossFunctions
       THEN /\ tr' = Raised(tr, "TypeError: object is not callable")
            /\ pc' = "failed"
            /\ steps' = 0
       ELSE IF UsesElementBatch(tr) /\ LossNeedsOriginalShapes(tr.loss)
       THEN /\ tr' = Raised(tr, "TypeError: missing argument original_shapes")
            /\ pc' = "failed"
            /\ steps' = 0
       ELSE LET n == BatchSamples(tr, engine.batch)
            IN  /\ tr' = IF UsesElementBatch(tr)
                         THEN update_with_element_batch(tr, n, caller.y_layout)
                         ELSE update_standard(tr)
                /\ steps' = UpdateSteps(tr, n, caller.y_layout)
                /\ pc' = "running"
    /\ engine' = [engine EXCEPT
                     !.epoch = IF engine.batch = 0 THEN @ + 1 ELSE @,
                     !.batch = @ + 1]
    /\ UNCHANGED <<fs, caller, stopper, metrics, result, resumed, sel, inf, call>>

\* float comparisons and negation: every comparison with nan is False
FloatLE(a, b) == ~IsNaN(a) /\ ~IsNaN(b) /\ a <= b
Neg(x) == IF IsNaN(x) THEN NaN ELSE 0 - x

\* ignite.handlers.EarlyStopping.__call__ with this score: the handler after
\* the call and whether it called trainer.terminate()
EarlyStopping(h, score, patience) ==
    IF h.best_score = <<>>
    THEN [handler |-> [h EXCEPT !.best_score = <<score>>], terminate |-> FALSE]
    ELSE IF FloatLE(score, h.best_score[1])
    THEN [handler |-> [h EXCEPT !.counter = @ + 1],
          terminate |-> h.counter + 1 >= patience]
    ELSE [handler |-> [best_score |-> <<score>>, counter |-> 0],
          terminate |-> FALSE]

\* the st_ctime a file written now gets: later than every file there is
Now(f) ==
    1 + Max({0} \cup UNION {{f[d].snapshots[i].ctime :
                                   i \in 1..Len(f[d].snapshots)} : d \in Dirs})

\* a variant of WriteSnapshotAndLog that saves every checkpoint under one
\* file name
WriteSnapshotOneName(f, t, epoch, train_loss, validation_loss) ==
    [f EXCEPT ![t.setting.trainer.output_directory] =
        [@ EXCEPT
            !.snapshots =
                <<SnapshotFile(1, Now(f),
                      Checkpoint(epoch, validation_loss, t.model, t.optimizer))>>,
            !.log = Append(@, LogRow(epoch, train_loss, validation_loss))]]

\* torch.save of the checkpoint followed by the append to log.csv, in
\* log_training_results
WriteSnapshotAndLog(f, t, epoch, train_loss, validation_loss) ==
    [f EXCEPT ![t.setting.trainer.output_directory] =
        [@ EXCEPT
            !.snapshots = Append(
                SelectSeq(@, LAMBDA x : x.epoch # epoch),
                SnapshotFile(epoch, Now(f),
                    Checkpoint(epoch, validation_loss, t.model, t.optimizer))),
            !.log = Append(@, LogRow(epoch, train_loss, validation_loss))]]

\* how the writes of log_training_results may end: both succeed, torch.save
\* raises OSError, or opening or writing log.csv does
WriteFailures == {"none", "torch.save", "log.csv"}

\* a variant of WriteResults that appends the row before it saves the
\* checkpoint
WriteRowThenSnapshot(f, t, epoch, train_loss, validation_loss, failure) ==
    IF failure = "none"
    THEN WriteSnapshotAndLog(f, t, epoch, train_loss, validation_loss)
    ELSE IF failure = "log.csv" THEN f
    ELSE [f EXCEPT ![t.setting.trainer.output_directory].log =
             Append(@, LogRow(epoch, train_loss, validation_loss))]

\* the files after the writes of log_training_results: torch.save comes
\* first, so a failure of torch.save leaves neither file nor row and a
\* failure of the log write leaves the snapshot without a row
WriteResults(f, t, epoch, train_loss, validation_loss, failure) ==
    IF failure = "none"
    THEN WriteSnapshotAndLog(f, t, epoch, train_loss, validation_loss)
    ELSE IF failure = "torch.save" THEN f
    ELSE [f EXCEPT ![t.setting.trainer.output_directory].snapshots =
             WriteSnapshotAndLog(f, t, epoch, train_loss, validation_loss)
                 [t.setting.trainer.output_directory].snapshots]

\* a variant of LogTriggerFires that logs at every epoch
LogTriggerEveryEpoch(t, epoch) == TRUE

\* ignite.engine.Events.EPOCH_COMPLETED(every=log_trigger_epoch): whether
\* log_training_results is called when this epoch completes
LogTriggerFires(t, epoch) == epoch % t.log_trigger_epoch = 0

\* ignite.engine.Events.EPOCH_COMPLETED(every=stop_trigger_epoch): whether
\* fire_stop_trigger is called when this epoch completes
StopTriggerFires(t, epoch) == epoch % t.stop_trigger_epoch = 0

\* EPOCH_COMPLETED: log_training_results when the epoch is a multiple of
\* log_trigger_epoch, then fire_stop_trigger when it is a multiple of
\* stop_trigger_epoch (EarlyStopping, then the optuna pruning handler when a
\* trial was given), then the engine's test for the end of the run.  An
\* exception in a handler leaves trainer.run and train().
EpochCompleted ==
    /\ pc = "running"
    /\ engine.batch = TrainLoaderLength(tr)
    /\ LET t == tr.setting.trainer
           logs == LogTriggerFires(t, engine.epoch)
           stops == StopTriggerFires(t, engine.epoch)
       IN  \E train_loss \in IF logs THEN TrainLosses ELSE {NaN},
              validation_loss \in IF logs THEN ValidationLosses ELSE {NaN},
              should_prune \in IF stops /\ tr.optuna_trial THEN BOOLEAN ELSE {FALSE},
              failure \in IF logs THEN WriteFailures ELSE {"none"} :
            LET m == IF logs THEN <<validation_loss>> ELSE metrics
                es == IF stops /\ m # <<>> /\ failure = "none"
                      THEN EarlyStopping(stopper, Neg(m[1]), t.patience)
                      ELSE [handler |-> stopper, terminate |-> FALSE]
            IN  /\ metrics' = m
                /\ fs' = IF logs
                         THEN WriteResults(fs, tr, engine.epoch,
                                           train_loss, validation_loss, failure)
                         ELSE fs
                /\ stopper' = es.handler
                /\ IF failure # "none"
                   THEN /\ tr' = Raised(tr, "OSError: " \o failure)
                        /\ pc' = "failed"
                        /\ engine' = engine
                   ELSE IF stops /\ m = <<>>
                   THEN /\ tr' = Raised(tr, "KeyError: 'loss'")
                        /\ pc' = "failed"
                        /\ engine' = engine
                   ELSE IF should_prune
                   THEN /\ tr' = Raised(tr, "TrialPruned")
                        /\ pc' = "pruned"
                        /\ engine' = [engine EXCEPT !.should_terminate = es.terminate]
                   ELSE /\ tr' = tr
                        /\ IF es.terminate \/ engine.epoch >= t.n_epoch
                           THEN /\ pc' = "finished"
                                /\ engine' = [engine EXCEPT
                                                 !.should_terminate = es.terminate]
                           ELSE /\ pc' = "running"
                                /\ engine' = [engine EXCEPT !.batch = 0]
    /\ UNCHANGED <<caller, steps, result, resumed, sel, inf, call>>

\* a variant of MinValidationLoss that takes the last logged value
LastValidationLoss(rows) ==
    IF rows = <<>> THEN NaN ELSE rows[Len(rows)].validation_loss

\* np.min(df['validation_loss']): pandas skips NaN; nan when nothing is left
MinValidationLoss(rows) ==
    LET valid == {rows[i].validation_loss : i \in 1..Len(rows)} \ {NaN}
    IN  IF valid = {} THEN NaN ELSE Min(valid)

\* Trainer.train() after self.trainer.run returned
TrainReturn ==
    /\ pc = "finished"
    /\ result' = <<MinValidationLoss(fs[tr.setting.trainer.output_directory].log)>>
    /\ pc' = "done"
    /\ UNCHANGED <<fs, caller, tr, engine, stopper, metrics, steps, resumed, sel, inf, call>>

\* a later session: Trainer.__init__ with settings that restart the run the
\* session before left in its output directory
ConstructRestart ==
    /\ pc \in {"done", "pruned", "failed"}
    /\ ~resumed
    /\ engine.epoch > 0
    /\ fs[tr.setting.trainer.output_directory].snapshots # <<>>
    /\ LET s == RestartSettings(tr.setting.trainer.output_directory)
           r == UpdateSettingIfNeeded(s, fs)
       IN  /\ caller' = [setting |-> s, optuna_trial |-> FALSE,
                          y_layout |-> caller.y_layout]
           /\ tr' = [NewTrainer(r.setting, FALSE) EXCEPT !.err = r.err]
           /\ pc' = IF r.err = None THEN "constructed" ELSE "failed"
    /\ resumed' = TRUE
    /\ engine' = NewEngine
    /\ stopper' = NewStopper
    /\ metrics' = <<>>
    /\ steps' = 0
    /\ result' = <<>>
    /\ UNCHANGED <<fs, sel, inf, call>>

Next ==
    \/ Construct
    \/ ConstructRestart
    \/ PrepareTrainingOnly
    \/ InferPrepare
    \/ TrainStart
    \/ UpdateModel
    \/ EpochCompleted
    \/ TrainReturn

Spec == Init /\ [][Next]_vars

\* ------------------------------------------- snapshot selection on its own
\* log rows and snapshot files of the directories selection is applied to
MaxRows == 3

SelValidationLosses == {2000000, 3000000, 5000000, NaN}
SelTrainLosses == {3000000, 4000000}

Orders(n) ==
    {p \in [1..n -> 1..n] : \A i, j \in 1..n : p[i] = p[j] => i = j}

\* a run directory with n logged epochs: rows in epoch order, one snapshot
\* file per row; glob lists the files in the order `order`, and the file of
\* epoch e has st_ctime ctimes[e]
SelDirectory(n, train, validation, order, ctimes) ==
    [exists |-> TRUE,
     yamls |-> <<>>,
     has_log |-> TRUE,
     log |-> [e \in 1..n |-> [epoch |-> e, train_loss |-> train[e],
                              validation_loss |-> validation[e]]],
     snapshots |-> [i \in 1..n |->
         SnapshotFile(order[i], ctimes[order[i]],
             Checkpoint(order[i], validation[order[i]], NewNetwork("mlp2"),
                        NewOptimizer))]]

Identity(n) == [i \in 1..n |-> i]

\* the example of the specification: validation losses 0.5, 0.2, 0.3
ExampleValidation(n) == [e \in 1..n |-> <<5000000, 2000000, 3000000>>[((e - 1) % 3) + 1]]
ExampleTrain(n) == [e \in 1..n |-> 3000000]

\* directories that differ in what was logged
SelLogInputs ==
    UNION {{[d |-> SelDirectory(n, tl, vl, Identity(n), Identity(n)),
             path_epoch |-> <<>>] :
               tl \in [1..n -> SelTrainLosses], vl \in [1..n -> SelValidationLosses]} :
           n \in 1..MaxRows}

\* directories that differ in the order glob lists the files, in the files'
\* st_ctime, and in whether the directory's own path contains snapshot_epoch_0
SelFileInputs ==
    UNION {{[d |-> SelDirectory(n, ExampleTrain(n), ExampleValidation(n), o, c),
             path_epoch |-> pe] :
               o \in Orders(n), c \in Orders(n), pe \in {<<>>, <<0>>}} :
           n \in 1..MaxRows}

InitSelect ==
    /\ fs = [d \in Dirs |-> NoDir]
    /\ pc = "new"
    /\ caller = NoCaller
    /\ tr = NewTrainer(None, FALSE)
    /\ engine = NewEngine
    /\ stopper = NewStopper
    /\ metrics = <<>>
    /\ steps = 0
    /\ result = <<>>
    /\ resumed = FALSE
    /\ inf = NoInf
    /\ call = NoCall
    /\ \E x \in SelLogInputs \cup SelFileInputs :
          sel = [phase |-> "input", d |-> x.d, path_epoch |-> x.path_epoch]

\* Trainer._select_snapshot(path, method) on the directory
SelectTrainer ==
    /\ sel.phase = "input"
    /\ \E method \in Methods :
          sel' = [phase |-> "done", d |-> sel.d, path_epoch |-> sel.path_epoch,
                  class |-> "Trainer", method |-> method,
                  out |-> Trainer_select_snapshot(sel.d, method)]
    /\ UNCHANGED <<fs, pc, caller, tr, engine, stopper, metrics, steps, result, resumed, inf, call>>

\* SimlManager._select_snapshot(path, method) on the directory
SelectSimlManager ==
    /\ sel.phase = "input"
    /\ \E method \in Methods :
          sel' = [phase |-> "done", d |-> sel.d, path_epoch |-> sel.path_epoch,
                  class |-> "SimlManager", method |-> method,
                  out |-> SimlManager_select_snapshot(sel.d, sel.path_epoch, method)]
    /\ UNCHANGED <<fs, pc, caller, tr, engine, stopper, metrics, steps, result, resumed, inf, call>>

NextSelect == SelectTrainer \/ SelectSimlManager

SpecSelect == InitSelect /\ [][NextSelect]_vars

\* ================================================================== claims
Values(state_dict) == [i \in 1..Len(state_dict) |-> state_dict[i].value]

BothDirectoriesMessage ==
    "ValueError: Restart directory and pretrain directory cannot be specified at the same time."

\* C1: constructing a Trainer whose settings have both restart_directory and
\* pretrain_directory set fails with the error that the two cannot be
\* specified at the same time; the settings are not replaced and no run starts.
C1_BothDirectoriesRejected ==
    (/\ pc # "new"
     /\ caller.setting.trainer.restart_directory # None
     /\ caller.setting.trainer.pretrain_directory # None)
        => (/\ pc = "failed"
            /\ tr.err = BothDirectoriesMessage
            /\ tr.setting = caller.setting)

\* C2: a checkpoint the training loop wrote at a logging epoch E, restored
\* through the restart path into a fresh model and optimizer of the same
\* architecture, is restored without error: parameters and optimizer state
\* are those saved and the restored epoch counter is E.
C2_RestartRoundTrip ==
    (resumed /\ tr.restart_loaded)
        => \E i \in 1..Len(fs[caller.setting.trainer.restart_directory].snapshots) :
              LET ck == fs[caller.setting.trainer.restart_directory].snapshots[i].checkpoint
              IN  /\ tr.err = None
                  /\ tr.model = ck.model_state_dict
                  /\ tr.optimizer = ck.optimizer_state_dict
                  /\ tr.epoch = <<ck.epoch>>

\* C3: a run restarted from a run whose latest snapshot is of epoch E goes on
\* from E: the restart does not fail, the engine never is at an epoch below E
\* or above n_epoch, and every snapshot it writes is of an epoch above E.
C3_RestartContinuesFromSavedEpoch ==
    tr.restart_loaded
        => (/\ pc # "failed"
            /\ engine.epoch >= tr.epoch[1]
            /\ engine.epoch <= tr.setting.trainer.n_epoch
            /\ \A i \in 1..Len(fs[tr.setting.trainer.output_directory].snapshots) :
                  fs[tr.setting.trainer.output_directory].snapshots[i].epoch
                      > tr.epoch[1])

\* the case of C4: pretrain_directory set, restart_directory None, the
\* Trainer constructed and _prepare_training returned
PretrainPrepared ==
    /\ pc = "prepared"
    /\ caller.setting.trainer.pretrain_directory # None
    /\ caller.setting.trainer.restart_directory = None

\* the parameters are those of the snapshot the policy selects, the optimizer
\* and the epoch counter are those of a fresh run
PretrainWeightsOnly ==
    LET d == fs[caller.setting.trainer.pretrain_directory]
        chosen == Trainer_select_snapshot(
                      d, caller.setting.trainer.snapshot_choise_method)
    IN  /\ chosen.err = None
        /\ \E i \in 1..Len(d.snapshots) :
              /\ d.snapshots[i].epoch = chosen.epoch
              /\ Values(tr.model) = Values(d.snapshots[i].checkpoint.model_state_dict)
        /\ tr.optimizer = NewOptimizer
        /\ tr.epoch = <<>>
        /\ tr.pretrain_loaded /\ ~tr.restart_loaded

\* C4 (as stated): with pretrain_directory set and restart_directory None,
\* after construction and _prepare_training the parameters are those of the
\* selected snapshot, optimizer state and epoch counter are fresh, and every
\* settings field outside the model section, trainer.output_directory
\* included, is the value the caller passed.
C4_PretrainKeepsAllOtherSettings ==
    PretrainPrepared
        => (/\ PretrainWeightsOnly
            /\ tr.setting.trainer = caller.setting.trainer)

\* C4 (amended): as C4, but trainer.output_directory is the default output
\* directory when the directory the caller passed already exists, and
\* trainer.prune is False when no optuna trial was given; every other field
\* outside the model section is the value the caller passed.
C4_PretrainKeepsOtherSettings ==
    PretrainPrepared
        => (/\ PretrainWeightsOnly
            /\ tr.setting.trainer =
                  [caller.setting.trainer EXCEPT
                      !.output_directory =
                          IF fs[@].exists THEN DefaultOutputDirectory ELSE @,
                      !.prune = @ /\ caller.optuna_trial])

\* C4 witness: a pretrained Trainer whose weights differ from a fresh model's,
\* whose output directory was reset and whose prune flag was cleared
C4_Witness ==
    /\ PretrainPrepared
    /\ Values(tr.model) # Values(NewNetwork(tr.setting.model))
    /\ tr.setting.model # caller.setting.model
    /\ caller.setting.trainer.output_directory = "prior"
    /\ tr.setting.trainer.output_directory = DefaultOutputDirectory
    /\ caller.setting.trainer.prune /\ ~tr.setting.trainer.prune

\* C5: on restart the settings are replaced by those _update_setting reads from
\* the restart run's settings file, except that restart_directory and
\* pretrain_directory both are the values the caller passed.
C5_RestartRestoresBothPaths ==
    (pc = "constructed" /\ caller.setting.trainer.restart_directory # None)
        => LET file == fs[caller.setting.trainer.restart_directory].yamls[1]
               read == [file EXCEPT !.trainer.output_directory =
                           IF fs[@].exists THEN DefaultOutputDirectory ELSE @]
           IN  tr.setting =
                  [read EXCEPT
                      !.trainer.restart_directory =
                          caller.setting.trainer.restart_directory,
                      !.trainer.pretrain_directory =
                          caller.setting.trainer.pretrain_directory]

\* C6: in a single run at most one state transfer is performed:
\* _prepare_training never executes both a pretrain weight load and a
\* restart load.
C6_AtMostOneTransfer == ~(tr.pretrain_loaded /\ tr.restart_loaded)

\* the log rows of the directory selection was applied to
SelRows == sel.d.log

\* row k holds the smallest value of the column among the values not NaN
HoldsMinimum(rows, k, column) ==
    /\ ~IsNaN(rows[k][column])
    /\ \A j \in 1..Len(rows) :
          IsNaN(rows[j][column]) \/ rows[k][column] <= rows[j][column]

\* C7: policy `best` returns snapshot_epoch_<e>.pth with e the epoch of the
\* log row of minimum validation_loss; if any logged validation_loss is NaN
\* it returns what `train_best` returns, the snapshot of the epoch of minimum
\* train_loss.
C7_BestSelectsMinimumValidation ==
    (sel.phase = "done" /\ sel.method = "best")
        => LET column == IF \E j \in 1..Len(SelRows) :
                                IsNaN(SelRows[j].validation_loss)
                         THEN "train_loss" ELSE "validation_loss"
           IN  /\ sel.out.err = None
               /\ \E k \in 1..Len(SelRows) :
                     /\ HoldsMinimum(SelRows, k, column)
                     /\ sel.out.epoch = SelRows[k].epoch

\* C8: policy `latest` returns the snapshot file with the highest epoch number
\* among the snapshot_epoch_<N> files, whatever the files' creation times and
\* whatever the directory's own path name.
C8_LatestSelectsHighestEpoch ==
    (sel.phase = "done" /\ sel.method = "latest")
        => (/\ sel.out.err = None
            /\ \A i \in 1..Len(sel.d.snapshots) :
                  sel.d.snapshots[i].epoch <= sel.out.epoch)

\* the validation losses in the rows of the log of the run's output directory
LoggedValidationLosses ==
    {fs[tr.setting.trainer.output_directory].log[i].validation_loss :
        i \in 1..Len(fs[tr.setting.trainer.output_directory].log)}

\* C9: train() returns the minimum validation loss over all rows logged during
\* the run (of the values that are numbers; nan when there is none), not the
\* last logged value.
C9_TrainReturnsMinimum ==
    pc = "done"
        => LET logged == LoggedValidationLosses \ {NaN}
           IN  /\ Len(result) = 1
               /\ (logged = {} => IsNaN(result[1]))
               /\ (logged # {} =>
                      /\ result[1] \in logged
                      /\ \A v \in logged : result[1] <= v)

\* C9 witness: train() returned, and an earlier logged epoch has a lower
\* validation loss than the last logged epoch; the lower one is returned
C9_Witness ==
    /\ pc = "done"
    /\ LET log == fs[tr.setting.trainer.output_directory].log
       IN  /\ Len(log) >= 2
           /\ ~IsNaN(log[Len(log)].validation_loss)
           /\ \E i \in 1..(Len(log) - 1) :
                 /\ ~IsNaN(log[i].validation_loss)
                 /\ log[i].validation_loss < log[Len(log)].validation_loss
                 /\ result = <<log[i].validation_loss>>

\* C10: in element-batch mode (not element-wise, element_batch_size > 0) each
\* mini-batch of samples causes exactly one optimizer step, however many
\* sub-batches the samples are split into.
C10_OneStepPerMiniBatch ==
    (pc = "running" /\ UsesElementBatch(tr) /\ engine.batch > 0) => steps = 1

\* C11: with batch_size = 1 and element_batch_size at least the element count
\* of every sample, update_with_element_batch changes the model and the
\* optimizer on every mini-batch exactly as update_standard does (one step
\* along the gradient of the loss of the whole sample), so the runs agree.
C11_ElementBatchEquivalence ==
    [][(/\ pc = "running" /\ pc' = "running"
        /\ engine'.batch = engine.batch + 1
        /\ UsesElementBatch(tr)
        /\ tr.setting.trainer.batch_size = 1
        /\ tr.setting.trainer.element_batch_size >= SampleElements)
          => tr' = update_standard(tr)]_vars

\* the checkpoint a file or handle given to _prepare_inference holds
InferenceCheckpoint == LoadSnapshot(fs[inf.dir], inf.epoch)[1]

\* _prepare_training reached the restart load: the Trainer as it was before
\* the load, and the checkpoint the load read
BeforeRestartLoad ==
    LoadPretrainedModelIfNeeded(
        GenerateTrainer(DefineModel([tr EXCEPT !.err = None])), fs, <<>>)
RestartCheckpoint ==
    LET d == fs[tr.setting.trainer.restart_directory]
    IN  LoadSnapshot(d, Trainer_select_snapshot(d, "latest").epoch)[1]
RestartLoadReached ==
    /\ pc # "new"
    /\ inf.kind = "off"
    /\ tr.model # <<>>
    /\ tr.setting.trainer.restart_directory # None
    /\ GenerateTrainer(DefineModel([tr EXCEPT !.err = None])).err = None
    /\ BeforeRestartLoad.err = None
    /\ Trainer_select_snapshot(
           fs[tr.setting.trainer.restart_directory], "latest").err = None

\* C15: a restore (pretrain load, restart load, inference load) of a checkpoint
\* whose model_state_dict has another number of entries than the live model
\* fails with an error and leaves the parameters of the live model as they
\* were.
C15_CountMismatchLeavesModel ==
    /\ (/\ pc \in {"inference", "failed"}
        /\ inf.kind \in {"file", "handle"}
        /\ Len(InferenceCheckpoint.model_state_dict)
               # Len(NewNetwork(tr.setting.model)))
          => /\ tr.err # None
             /\ tr.model = NewNetwork(tr.setting.model)
    /\ (/\ RestartLoadReached
        /\ Len(RestartCheckpoint.model_state_dict) # Len(BeforeRestartLoad.model))
          => /\ tr.err # None
             /\ tr.model = BeforeRestartLoad.model

\* C16: no snapshot file is overwritten.  Every snapshot file there is stays
\* as it is in every step (a logging epoch writes a path not written before),
\* and a step changes no directory but the output directory of the running
\* Trainer, which did not exist when train() was called.
C16_NoSnapshotOverwritten ==
    [][/\ \A d \in Dirs : \A i \in 1..Len(fs[d].snapshots) :
             /\ Len(fs'[d].snapshots) >= i
             /\ fs'[d].snapshots[i] = fs[d].snapshots[i]
       /\ \A d \in Dirs :
             fs'[d] # fs[d] =>
                 /\ d = tr'.setting.trainer.output_directory
                 /\ pc = "constructed" => ~fs[d].exists]_vars

\* C16 witness: a run has written the snapshots of two epochs into its output
\* directory, next to the directories of earlier runs
C16_Witness ==
    /\ pc = "running"
    /\ Len(fs[tr.setting.trainer.output_directory].snapshots) >= 2
    /\ fs["prior"].snapshots # <<>>
    /\ \A i, j \in 1..Len(fs[tr.setting.trainer.output_directory].snapshots) :
          i # j => fs[tr.setting.trainer.output_directory].snapshots[i].epoch
                     # fs[tr.setting.trainer.output_directory].snapshots[j].epoch

\* _prepare_training was called on a setting with batch_size > 1 and
\* element_batch_size > 1 and got as far as _generate_trainer
BothBatchSizesPrepared ==
    /\ pc # "new"
    /\ inf.kind = "off"
    /\ tr.model # <<>>
    /\ tr.setting.trainer.batch_size > 1
    /\ tr.setting.trainer.element_batch_size > 1

BatchSizeMessage == "ValueError: batch_size cannot be > 1 when element_batch_size > 1."

\* C17 as stated: batch_size > 1 with element_batch_size > 1 is rejected with
\* an error when the training is prepared, before data loaders, optimizer and
\* engines exist, in every mode, the element-wise one included.
C17_BothBatchSizesRejectedInEveryMode ==
    BothBatchSizesPrepared => (tr.err # None /\ ~tr.engines)

\* C17 as the code has it: batch_size > 1 with element_batch_size > 1 is
\* rejected when the training is prepared, before data loaders, optimizer and
\* engines exist, unless the mode is element-wise; in element-wise mode
\* batch_size is not looked at, element_batch_size is the batch size of the
\* data loaders, and the preparation goes on.
C17_BothBatchSizesRejected ==
    BothBatchSizesPrepared =>
        IF tr.element_wise
        THEN /\ tr.engines
             /\ tr.batch_size = tr.setting.trainer.element_batch_size
             /\ tr.err # BatchSizeMessage
        ELSE /\ tr.err = BatchSizeMessage
             /\ ~tr.engines
             /\ tr.optimizer = NewOptimizer
             /\ tr.batch_size = 0

\* C17 witness: a preparation that was rejected for its two batch sizes
C17_Witness ==
    /\ BothBatchSizesPrepared
    /\ pc = "failed"
    /\ ~tr.element_wise
    /\ tr.err = BatchSizeMessage

\* the directory _prepare_inference was pointed at: its argument, or the
\* pretrain_directory of the caller's setting when the argument is None
InferenceDirectory ==
    IF inf.kind = "path" THEN inf.dir ELSE caller.setting.trainer.pretrain_directory

\* C19: _prepare_inference given a file or an open handle loads the weights of
\* exactly that snapshot; given a directory it takes the model section of that
\* directory's settings file and the weights of the snapshot of that directory
\* which the configured snapshot_choise_method selects; no optimizer state is
\* loaded and no optimizer is created.
C19_InferenceLoadsFromGivenSource ==
    pc = "inference" =>
        /\ tr.optimizer = NewOptimizer /\ ~tr.engines /\ ~tr.restart_loaded
        /\ inf.kind \in {"file", "handle"} =>
              Values(tr.model) = Values(InferenceCheckpoint.model_state_dict)
        /\ inf.kind \in {"path", "none"} =>
              LET d == fs[InferenceDirectory]
                  chosen == Trainer_select_snapshot(
                                d, tr.setting.trainer.snapshot_choise_method)
              IN  /\ tr.setting.model = d.yamls[1].model
                  /\ chosen.err = None
                  /\ Values(tr.model)
                        = Values(LoadSnapshot(d, chosen.epoch)[1].model_state_dict)

\* ------------------------------------------------------------ loss functions
\* Tensors are nested sequences.  A batch is given by the original_shapes of
\* its samples, <<valid time length, valid vertex count>> each; every valid
\* position holds a number that names it, every padded position holds fill.
MaxBatch == 2
MaxTimeLength == 2
MaxVertices == 2

RECURSIVE SumSeq(_)
SumSeq(s) == IF s = <<>> THEN 0 ELSE s[1] + SumSeq(Tail(s))

\* torch.cat of a list of one-dimensional tensors
RECURSIVE Cat(_)
Cat(ts) == IF ts = <<>> THEN <<>> ELSE ts[1] \o Cat(Tail(ts))

\* tensor.reshape(-1) of a two-dimensional tensor: its rows one after another
Flatten(rows) == Cat(rows)

\* the number at position (time t, vertex e) of sample b; base tells the
\* prediction (1000) from the target (0)
Code(base, b, t, e) == base + 100 * b + 10 * t + e

PadTime(shapes) == Max({shapes[b][1] : b \in 1..Len(shapes)})
PadVertices(shapes) == Max({shapes[b][2] : b \in 1..Len(shapes)})

\* a padded time series batch with axes (time, sample, vertex), as
\* Trainer's loss_function_time_with_padding indexes it
TimeBatch(shapes, base, fill) ==
    [t \in 1..PadTime(shapes) |->
        [b \in 1..Len(shapes) |->
            [e \in 1..PadVertices(shapes) |->
                IF t <= shapes[b][1] /\ e <= shapes[b][2]
                THEN Code(base, b, t, e) ELSE fill]]]

\* a padded time series batch with axes (time, vertex), the vertices of the
\* samples side by side, as LossCalculator's loss_function_time_with_padding
\* splits it
TimeBlocks(shapes, base, fill) ==
    [t \in 1..PadTime(shapes) |->
        Cat([b \in 1..Len(shapes) |->
                [e \in 1..shapes[b][2] |->
                    IF t <= shapes[b][1] THEN Code(base, b, t, e) ELSE fill]])]

\* a padded batch with axes (sample, vertex) of samples without time axis
\* (time t = 1), and the target of such a batch: the samples' rows joined
PaddedBatch(shapes, base, fill) ==
    [b \in 1..Len(shapes) |->
        [e \in 1..PadVertices(shapes) |->
            IF e <= shapes[b][2] THEN Code(base, b, 1, e) ELSE fill]]
JoinedBatch(shapes, base) ==
    Cat([b \in 1..Len(shapes) |->
            [e \in 1..shapes[b][2] |-> Code(base, b, 1, e)]])

\* what a loss function hands to loss_core: prediction and target, flat
Core(y_pred, y) == [err |-> None, y_pred |-> y_pred, y |-> y]
CoreError(msg) == [err |-> msg, y_pred |-> <<>>, y |-> <<>>]

\* functional.mse_loss as <<sum of squared differences, number of elements>>
mse_loss(y_pred, y) ==
    <<SumSeq([i \in 1..Len(y) |-> (y_pred[i] - y[i]) * (y_pred[i] - y[i])]), Len(y)>>

\* a variant of Trainer_loss_function_time_with_padding that cuts the
\* vertices but not the time steps
Trainer_loss_function_time_whole(y_pred, y, original_shapes) ==
    Core(Cat([i_batch \in 1..Len(original_shapes) |->
                 Flatten([t \in 1..Len(y_pred) |->
                     SubSeq(y_pred[t][i_batch], 1, original_shapes[i_batch][2])])]),
         Cat([i_batch \in 1..Len(original_shapes) |->
                 Flatten([t \in 1..Len(y) |->
                     SubSeq(y[t][i_batch], 1, original_shapes[i_batch][2])])]))

\* loss_function_time_with_padding of Trainer._create_loss_function:
\* y_pred[:s[0], i_batch, :s[1]].reshape(-1) for every sample, joined; the
\* same of y
Trainer_loss_function_time_with_padding(y_pred, y, original_shapes) ==
    Core(Cat([i_batch \in 1..Len(original_shapes) |->
                 Flatten([t \in 1..Min({original_shapes[i_batch][1], Len(y_pred)}) |->
                     SubSeq(y_pred[t][i_batch], 1, original_shapes[i_batch][2])])]),
         Cat([i_batch \in 1..Len(original_shapes) |->
                 Flatten([t \in 1..Min({original_shapes[i_batch][1], Len(y)}) |->
                     SubSeq(y[t][i_batch], 1, original_shapes[i_batch][2])])]))

\* loss_function_with_padding of Trainer._create_loss_function: _yp[:_l[0]]
\* of every sample of the prediction, joined, against the whole of y; here
\* _l[0] is the sample's vertex count
Trainer_loss_function_with_padding(y_pred, y, original_shapes) ==
    Core(Cat([b \in 1..Len(original_shapes) |->
                 SubSeq(y_pred[b], 1, original_shapes[b][2])]),
         y)

\* torch.split(tensor, sizes, dim=1) of a (time, vertex) tensor: one tensor
\* per size; <<>> when the sizes do not add up to the width (RuntimeError)
SplitDim1(tensor, sizes) ==
    IF SumSeq(sizes) # Len(tensor[1]) THEN <<>>
    ELSE [i \in 1..Len(sizes) |->
             [t \in 1..Len(tensor) |->
                 SubSeq(tensor[t], SumSeq(SubSeq(sizes, 1, i - 1)) + 1,
                        SumSeq(SubSeq(sizes, 1, i)))]]

\* util.VariableMask(output_skips, output_dims, output_is_dict) for an output
\* that is not a dictionary: the mask over the last axis, one entry per
\* feature, False over the output_dims[i] features of every skipped variable
\* i.  output_skips None is <<>>.
ArrayMask(output_skips, output_dims) ==
    Cat([i \in 1..Len(output_skips) |->
            [j \in 1..output_dims[i] |-> ~output_skips[i]]])

\* self.mask_function(y_pred, y): both tensors, given as the sequence of their
\* vectors along the last axis (a one-dimensional tensor is one such vector),
\* keep the entries of the last axis that the mask has True; nothing is
\* masked when no variable is skipped; a last axis of another length than the
\* mask is an IndexError.  What is left goes to loss_core, here flat.
mask_function(output_skips, output_dims, y_pred, y) ==
    LET mask == ArrayMask(output_skips, output_dims)
        kept == {i \in 1..Len(mask) : mask[i]}
        keep(v) == [k \in 1..Cardinality(kept) |->
                       v[CHOOSE i \in kept :
                             Cardinality({j \in kept : j <= i}) = k]]
    IN  IF \A i \in 1..Len(output_skips) : ~output_skips[i]
        THEN Core(Flatten(y_pred), Flatten(y))
        ELSE IF \/ \E r \in 1..Len(y_pred) : Len(y_pred[r]) # Len(mask)
                \/ \E r \in 1..Len(y) : Len(y[r]) # Len(mask)
        THEN CoreError("IndexError: the shape of the mask does not match the tensor")
        ELSE Core(Flatten([r \in 1..Len(y_pred) |-> keep(y_pred[r])]),
                  Flatten([r \in 1..Len(y) |-> keep(y[r])]))

\* LossCalculator.loss_function_time_with_padding: split along axis 1 by
\* original_shapes[:, 1], sy[:s].reshape(-1) with s from original_shapes[:, 0],
\* joined; the mask is given the two flat tensors
LossCalculator_loss_function_time_with_padding(skips, dims, y_pred, y, original_shapes) ==
    LET sizes == [i \in 1..Len(original_shapes) |-> original_shapes[i][2]]
        split_y_pred == SplitDim1(y_pred, sizes)
        split_y == SplitDim1(y, sizes)
    IN  IF split_y_pred = <<>> \/ split_y = <<>>
        THEN CoreError("RuntimeError: split_with_sizes")
        ELSE mask_function(skips, dims,
                 <<Cat([i \in 1..Len(sizes) |->
                         Flatten(SubSeq(split_y_pred[i], 1,
                                        Min({original_shapes[i][1], Len(y_pred)})))])>>,
                 <<Cat([i \in 1..Len(sizes) |->
                         Flatten(SubSeq(split_y[i], 1,
                                        Min({original_shapes[i][1], Len(y)})))])>>)

\* LossCalculator.loss_function_without_padding on a (time, vertex) tensor:
\* loss_core(*mask_function(y_pred.view(y.shape), y)); the mask is given the
\* two tensors in the shape of y
loss_function_without_padding(output_skips, output_dims, y_pred, y) ==
    IF Len(Flatten(y_pred)) # Len(Flatten(y))
    THEN CoreError("RuntimeError: shape is invalid for input")
    ELSE LET flat == Flatten(y_pred)
             width == Len(y[1])
             view == [r \in 1..Len(y) |->
                         SubSeq(flat, (r - 1) * width + 1, r * width)]
         IN  mask_function(output_skips, output_dims, view, y)

\* the batches the loss functions are called on
OriginalShapes ==
    UNION {[1..n -> (1..MaxTimeLength) \X (1..MaxVertices)] : n \in 1..MaxBatch}
PadFills == {-1, -2}

\* output_skips and output_dims of a LossCalculator: no skips given, or up to
\* MaxVertices output variables of one or two features each, skipped or not
MaskSettings ==
    {[output_skips |-> <<>>, output_dims |-> <<>>]}
        \cup UNION {{[output_skips |-> sk, output_dims |-> d] :
                        sk \in [1..n -> BOOLEAN], d \in [1..n -> 1..2]} :
                    n \in 1..MaxVertices}

InitLoss ==
    /\ fs = [d \in Dirs |-> NoDir]
    /\ pc = "new"
    /\ caller = NoCaller
    /\ tr = NewTrainer(None, FALSE)
    /\ engine = NewEngine
    /\ stopper = NewStopper
    /\ metrics = <<>>
    /\ steps = 0
    /\ result = <<>>
    /\ resumed = FALSE
    /\ sel = NoSel
    /\ inf = NoInf
    /\ \E shapes \in OriginalShapes, fill_pred \in PadFills, fill \in PadFills :
          call = [fn |-> "input", original_shapes |-> shapes,
                  fill_pred |-> fill_pred, fill |-> fill]

\* the record of a call of the loss function fn that returned out; mask holds
\* output_skips and output_dims of the LossCalculator called, y_layout the
\* layout of the target given
LossCalled(fn, mask, y_layout, out) ==
    [fn |-> fn, original_shapes |-> call.original_shapes,
     fill_pred |-> call.fill_pred, fill |-> call.fill,
     mask |-> mask, y_layout |-> y_layout, out |-> out]

\* self.loss(y_pred, y, original_shapes) with Trainer's time series loss
CallTrainerTimeWithPadding ==
    /\ call.fn = "input"
    /\ UNCHANGED <<fs, pc, caller, tr, engine, stopper, metrics, steps, result,
                   resumed, sel, inf>>
    /\ call' = LossCalled("Trainer.loss_function_time_with_padding",
        [output_skips |-> <<>>, output_dims |-> <<>>], "padded",
        Trainer_loss_function_time_with_padding(
            TimeBatch(call.original_shapes, 1000, call.fill_pred),
            TimeBatch(call.original_shapes, 0, call.fill),
            call.original_shapes))

\* self.loss(y_pred, y, original_shapes) with Trainer's padding loss; the
\* target is given as the data loader may give it: the valid rows of the
\* samples joined, or padded like the prediction
CallTrainerWithPadding ==
    /\ call.fn = "input"
    /\ UNCHANGED <<fs, pc, caller, tr, engine, stopper, metrics, steps, result,
                   resumed, sel, inf>>
    /\ \E y_layout \in {"joined", "padded"} :
        call' = LossCalled("Trainer.loss_function_with_padding",
            [output_skips |-> <<>>, output_dims |-> <<>>], y_layout,
            Trainer_loss_function_with_padding(
                PaddedBatch(call.original_shapes, 1000, call.fill_pred),
                IF y_layout = "joined"
                THEN JoinedBatch(call.original_shapes, 0)
                ELSE Flatten(PaddedBatch(call.original_shapes, 0, call.fill)),
                call.original_shapes))

\* LossCalculator(time_series=True, output_skips=..., output_dims=...)(
\*     y_pred, y, original_shapes)
CallLossCalculatorTimeWithPadding ==
    /\ call.fn = "input"
    /\ UNCHANGED <<fs, pc, caller, tr, engine, stopper, metrics, steps, result,
                   resumed, sel, inf>>
    /\ \E mask \in MaskSettings :
        call' = LossCalled("LossCalculator.loss_function_time_with_padding",
            mask, "padded",
            LossCalculator_loss_function_time_with_padding(
                mask.output_skips, mask.output_dims,
                TimeBlocks(call.original_shapes, 1000, call.fill_pred),
                TimeBlocks(call.original_shapes, 0, call.fill),
                call.original_shapes))

\* LossCalculator(time_series=False, output_skips=..., output_dims=...)(
\*     y_pred, y)
CallLossCalculatorWithoutPadding ==
    /\ call.fn = "input"
    /\ UNCHANGED <<fs, pc, caller, tr, engine, stopper, metrics, steps, result,
                   resumed, sel, inf>>
    /\ \E mask \in MaskSettings :
        call' = LossCalled("LossCalculator.loss_function_without_padding",
            mask, "padded",
            loss_function_without_padding(
                mask.output_skips, mask.output_dims,
                TimeBlocks(call.original_shapes, 1000, call.fill_pred),
                TimeBlocks(call.original_shapes, 0, call.fill)))

NextLoss ==
    \/ CallTrainerTimeWithPadding
    \/ CallTrainerWithPadding
    \/ CallLossCalculatorTimeWithPadding
    \/ CallLossCalculatorWithoutPadding

SpecLoss == InitLoss /\ [][NextLoss]_vars

\* the numbers at the valid positions of every sample of the batch: the first
\* valid-time-length steps (the one step, without time axis) of the sample's
\* own vertices
ValidCodes(shapes, base, with_time) ==
    UNION {{Code(base, b, t, e) :
               t \in 1..(IF with_time THEN shapes[b][1] ELSE 1),
               e \in 1..shapes[b][2]} : b \in 1..Len(shapes)}

PaddedLosses ==
    {"Trainer.loss_function_time_with_padding",
     "Trainer.loss_function_with_padding",
     "LossCalculator.loss_function_time_with_padding"}

\* a variable is skipped: the mask of the LossCalculator removes something
Masked(mask) == \E i \in 1..Len(mask.output_skips) : mask.output_skips[i]

\* features the mask keeps
KeptFeatures(mask) ==
    SumSeq([i \in 1..Len(mask.output_skips) |->
               IF mask.output_skips[i] THEN 0 ELSE mask.output_dims[i]])

C13_PaddingInvariance ==
    (/\ call.fn = "LossCalculator.loss_function_time_with_padding"
     /\ Len(call.original_shapes) = 1
     /\ Masked(call.mask)
           => SumSeq(call.mask.output_dims) = call.original_shapes[1][2])
        => LET plain == loss_function_without_padding(
                            call.mask.output_skips, call.mask.output_dims,
                            TimeBlocks(call.original_shapes, 1000, call.fill_pred),
                            TimeBlocks(call.original_shapes, 0, call.fill))
           IN  /\ call.out.err = None /\ plain.err = None
               /\ call.out.y_pred = plain.y_pred
               /\ call.out.y = plain.y
               /\ mse_loss(call.out.y_pred, call.out.y)
                     = mse_loss(plain.y_pred, plain.y)

\* -------------------------------------------------------- CoreLossCalculator
\* Loss functions are told apart by what they are: the built-in
\* functional.mse_loss, or the function a user registered under a name.
LossNames == {"mse", "user", "other"}
VariableNames == {"a", "b"}

\* loss_setting: one loss name for everything, or a dictionary from variable
\* name to loss name
LossSettings ==
    {[kind |-> "str", name |-> n, dict |-> <<>>] : n \in LossNames}
        \cup {[kind |-> "dict", name |-> None, dict |-> d] :
                 d \in UNION {[vs -> LossNames] : vs \in (SUBSET VariableNames) \ {{}}}}

\* user_loss_function_dic: <<>> for None, else <<dictionary>>
UserLossFunctionDics ==
    {<<>>} \cup {<<[n \in ns |-> [user |-> n]]>> : ns \in SUBSET {"mse", "user"}}

\* ILossAssignment.loss_names(): the loss names the assignment refers to
loss_names(loss_assignment) ==
    IF loss_assignment.kind = "str" THEN {loss_assignment.name}
    ELSE {loss_assignment.dict[v] : v \in DOMAIN loss_assignment.dict}

\* ILossAssignment.__getitem__(variable_name): <<>> when the assignment has
\* no entry for the variable
loss_assignment_getitem(loss_assignment, variable_name) ==
    IF loss_assignment.kind = "str" THEN <<loss_assignment.name>>
    ELSE IF variable_name \in DOMAIN loss_assignment.dict
         THEN <<loss_assignment.dict[variable_name]>>
         ELSE <<>>

\* CoreLossCalculator._create_loss_function_dict
create_loss_function_dict(user_loss_function_dic) ==
    LET name_to_function == [n \in {"mse"} |-> [user |-> None]]
    IN  IF user_loss_function_dic # <<>>
        THEN [n \in DOMAIN name_to_function \cup DOMAIN user_loss_function_dic[1] |->
                 IF n \in DOMAIN user_loss_function_dic[1]
                 THEN user_loss_function_dic[1][n]
                 ELSE name_to_function[n]]
        ELSE name_to_function

\* a variant of check_loss_functions that accepts every name
check_no_loss_functions(loss_assignment, func_name_to_func_obj) == {}

\* CoreLossCalculator._check_loss_functions: the names it may raise
\* 'Unknown loss function name: <name>' for; none: it returns
check_loss_functions(loss_assignment, func_name_to_func_obj) ==
    {loss_name \in loss_names(loss_assignment) :
        loss_name \notin DOMAIN func_name_to_func_obj}

\* CoreLossCalculator._select_core_loss_function(variable_name)
select_core_loss_function(loss_assignment, func_name_to_func_obj, variable_name) ==
    LET loss_name == loss_assignment_getitem(loss_assignment, variable_name)
    IN  IF loss_name = <<>> THEN [err |-> "KeyError: variable_name", func |-> <<>>]
        ELSE IF loss_name[1] \notin DOMAIN func_name_to_func_obj
        THEN [err |-> "KeyError: loss_name", func |-> <<>>]
        ELSE [err |-> None, func |-> <<func_name_to_func_obj[loss_name[1]]>>]

InitLossCalculator ==
    /\ fs = [d \in Dirs |-> NoDir]
    /\ pc = "new"
    /\ caller = NoCaller
    /\ tr = NewTrainer(None, FALSE)
    /\ engine = NewEngine
    /\ stopper = NewStopper
    /\ metrics = <<>>
    /\ steps = 0
    /\ result = <<>>
    /\ resumed = FALSE
    /\ sel = NoSel
    /\ inf = NoInf
    /\ \E loss_setting \in LossSettings, user \in UserLossFunctionDics :
          call = [fn |-> "new", loss_assignment |-> loss_setting,
                  user_loss_function_dic |-> user]

\* CoreLossCalculator.__init__(loss_assignment=..., user_loss_function_dic=...)
ConstructCoreLossCalculator ==
    /\ call.fn = "new"
    /\ LET table == create_loss_function_dict(call.user_loss_function_dic)
           unknown == check_loss_functions(call.loss_assignment, table)
       IN  \/ /\ unknown = {}
              /\ call' = [fn |-> "constructed",
                          loss_assignment |-> call.loss_assignment,
                          user_loss_function_dic |-> call.user_loss_function_dic,
                          func_name_to_func_obj |-> table,
                          err |-> None, unknown |-> None]
           \/ \E loss_name \in unknown :
                 call' = [fn |-> "failed",
                          loss_assignment |-> call.loss_assignment,
                          user_loss_function_dic |-> call.user_loss_function_dic,
                          func_name_to_func_obj |-> table,
                          err |-> "ValueError: Unknown loss function name: <name>",
                          unknown |-> loss_name]
    /\ UNCHANGED <<fs, pc, caller, tr, engine, stopper, metrics, steps, result,
                   resumed, sel, inf>>

\* CoreLossCalculator.__call__(input_tensor, target_tensor, variable_name)
CallCoreLossCalculator ==
    /\ call.fn = "constructed"
    /\ \E variable_name \in VariableNames \cup {None} :
          call' = [fn |-> "called",
                   loss_assignment |-> call.loss_assignment,
                   user_loss_function_dic |-> call.user_loss_function_dic,
                   func_name_to_func_obj |-> call.func_name_to_func_obj,
                   variable_name |-> variable_name,
                   out |-> select_core_loss_function(
                               call.loss_assignment, call.func_name_to_func_obj,
                               variable_name)]
    /\ UNCHANGED <<fs, pc, caller, tr, engine, stopper, metrics, steps, result,
                   resumed, sel, inf>>

NextLossCalculator == ConstructCoreLossCalculator \/ CallCoreLossCalculator

SpecLossCalculator == InitLossCalculator /\ [][NextLossCalculator]_vars

\* the loss names the assignment refers to that are neither built in nor a
\* key of the user's dictionary
UnregisteredNames ==
    loss_names(call.loss_assignment)
        \ ({"mse"} \cup IF call.user_loss_function_dic = <<>> THEN {}
                        ELSE DOMAIN call.user_loss_function_dic[1])

\* C14: the construction of a CoreLossCalculator whose assignment refers to a
\* loss name that is neither built in (mse) nor a key of the user's dictionary
\* raises 'Unknown loss function name: <NAME>' for such a name; after a
\* construction that succeeded, every call for an assigned variable resolves
\* to a registered function.
C14_UnknownLossNameFailsConstruction ==
    /\ call.fn \in {"constructed", "called"} => UnregisteredNames = {}
    /\ call.fn = "failed" =>
          /\ call.err = "ValueError: Unknown loss function name: <name>"
          /\ call.unknown \in UnregisteredNames
    /\ (/\ call.fn = "called"
        /\ loss_assignment_getitem(call.loss_assignment, call.variable_name) # <<>>)
          => /\ call.out.err = None
             /\ \E n \in DOMAIN call.func_name_to_func_obj :
                   call.out.func = <<call.func_name_to_func_obj[n]>>

\* C14 witness: a construction failed for an assignment of two variables of
\* which one names a user function that is registered and the other a name
\* nobody registered
C14_Witness ==
    /\ call.fn = "failed"
    /\ call.loss_assignment.kind = "dict"
    /\ call.user_loss_function_dic # <<>>
    /\ \E v \in DOMAIN call.loss_assignment.dict :
          call.loss_assignment.dict[v] \in DOMAIN call.user_loss_function_dic[1]
    /\ call.unknown = "other"

\* ------------------------------------------ PreprocessConverter.lazy_read_files
\* PreprocessConverter.MAX_RETRY
MAX_RETRY == 3
\* data files given to lazy_read_files, and calls made on one converter
MaxFiles == 2
MaxCalls == 2

DataFiles == UNION {Orders(n) : n \in 0..MaxFiles}

\* the object after PreprocessConverter.__init__(setting_data): checks says
\* that _init_converter set self.is_erroneous (standardize, std_scale); fitted
\* and var_nan describe self.converter: partial_fit was called on it, its
\* var_ holds a NaN.  stage and depth are the position in lazy_read_files and
\* the number of its frames on the stack.
NewPreprocessConverter(checks, data_files) ==
    [fn |-> "lazy_read_files", stage |-> "constructed", checks |-> checks,
     data_files |-> data_files, read |-> 0, fitted |-> FALSE, var_nan |-> FALSE,
     retry_count |-> 0, depth |-> 0, calls |-> 0, err |-> None]

\* `self.retry_count < self.MAX_RETRY` with one retry more allowed
may_retry_once_more(retry_count) == retry_count <= MAX_RETRY

\* `self.retry_count < self.MAX_RETRY`
may_retry(retry_count) == retry_count < MAX_RETRY

InitLazy ==
    /\ fs = [d \in Dirs |-> NoDir]
    /\ pc = "new"
    /\ caller = NoCaller
    /\ tr = NewTrainer(None, FALSE)
    /\ engine = NewEngine
    /\ stopper = NewStopper
    /\ metrics = <<>>
    /\ steps = 0
    /\ result = <<>>
    /\ resumed = FALSE
    /\ sel = NoSel
    /\ inf = NoInf
    /\ \E checks \in BOOLEAN, data_files \in DataFiles :
          call = NewPreprocessConverter(checks, data_files)

\* a caller's call of lazy_read_files(data_files) on the converter, the first
\* one or one after an earlier call returned or raised
LazyReadFiles ==
    /\ call.stage \in {"constructed", "returned", "raised"}
    /\ call.calls < MaxCalls
    /\ call' = [call EXCEPT !.stage = "loop", !.read = 0, !.depth = 1,
                            !.calls = @ + 1, !.err = None]
    /\ UNCHANGED <<fs, pc, caller, tr, engine, stopper, metrics, steps, result,
                   resumed, sel, inf>>

\* one turn of `for data_file in data_files`: partial_fit on the next file;
\* the variance may turn NaN and stays NaN
PartialFit ==
    /\ call.stage = "loop"
    /\ call.read < Len(call.data_files)
    /\ \E nan \in IF ~call.checks THEN {FALSE}
                  ELSE IF call.var_nan THEN {TRUE} ELSE BOOLEAN :
          call' = [call EXCEPT !.read = @ + 1, !.fitted = TRUE, !.var_nan = nan]
    /\ UNCHANGED <<fs, pc, caller, tr, engine, stopper, metrics, steps, result,
                   resumed, sel, inf>>

\* the test after the loop: return, retry (shuffle, _init_converter, the
\* recursive call), or raise
AfterLoop ==
    /\ call.stage = "loop"
    /\ call.read = Len(call.data_files)
    /\ IF ~call.checks THEN
           call' = [call EXCEPT !.stage = "returned", !.depth = 0]
       ELSE IF ~call.fitted THEN
           call' = [call EXCEPT !.stage = "raised", !.depth = 0,
                                !.err = "AttributeError: var_"]
       ELSE IF ~call.var_nan THEN
           call' = [call EXCEPT !.stage = "returned", !.depth = 0]
       ELSE IF may_retry(call.retry_count) THEN
           \E shuffled \in Orders(Len(call.data_files)) :
               call' = [call EXCEPT !.retry_count = @ + 1,
                                    !.data_files = shuffled,
                                    !.fitted = FALSE, !.var_nan = FALSE,
                                    !.read = 0, !.depth = @ + 1]
       ELSE
           call' = [call EXCEPT !.stage = "raised", !.depth = 0,
                                !.err = "ValueError: Retry exhausted. Check the data."]
    /\ UNCHANGED <<fs, pc, caller, tr, engine, stopper, metrics, steps, result,
                   resumed, sel, inf>>

NextLazy == LazyReadFiles \/ PartialFit \/ AfterLoop

SpecLazy == InitLazy /\ [][NextLazy]_vars

\* the steps of lazy_read_files are taken once it is called
SpecLazyFair == SpecLazy /\ WF_vars(PartialFit) /\ WF_vars(AfterLoop)

\* retries are bounded by MAX_RETRY, the raise comes only with the retries
\* used up and the variance still NaN, the return only with a fit that is not
\* erroneous
LazyRetriesBounded ==
    /\ call.retry_count <= MAX_RETRY
    /\ call.depth <= MAX_RETRY + 1
    /\ (call.stage = "raised" /\ call.err # "AttributeError: var_") =>
          /\ call.err = "ValueError: Retry exhausted. Check the data."
          /\ call.retry_count = MAX_RETRY
          /\ call.checks /\ call.var_nan
    /\ call.stage = "returned" => ~(call.checks /\ call.var_nan)
    /\ (call.stage = "loop" /\ call.depth > 1) => call.retry_count >= call.depth - 1

\* C18: lazy_read_files refits after a reshuffle when the fitted converter is
\* erroneous, at most MAX_RETRY = 3 times; still erroneous with the retries
\* used up it raises 'Retry exhausted. Check the data.', a fit that is not
\* erroneous makes it return normally, and every call comes to an end.
C18_RetriesBoundedAndTerminate ==
    /\ []LazyRetriesBounded
    /\ (call.stage = "loop") ~> (call.stage \in {"returned", "raised"})

\* C18 witness: the fourth fit of one call was erroneous too and
\* lazy_read_files raised
C18_Witness ==
    /\ call.stage = "raised"
    /\ call.calls = 1
    /\ call.retry_count = MAX_RETRY
    /\ call.err = "ValueError: Retry exhausted. Check the data."

\* ------------------------------------------------------------ block graphs
\* A block list is a sequence of blocks; block i has the name and output_name
\* i and the set input_names of the names it reads, 0 being the input feature.
\* Every input name resolves, as the block specification requires.  The last
\* block is the output boundary.
MaxBlocks == 3
MaxInputNames == 2

BlockLists ==
    UNION {[1..n -> {[input_names |-> ins] :
                        ins \in {x \in SUBSET (0..n) :
                                    x # {} /\ Cardinality(x) <= MaxInputNames}}] :
              n \in 1..MaxBlocks}

\* the blocks that read the output of block i, in the order of declaration
RECURSIVE SuccessorsFrom(_, _, _)
SuccessorsFrom(blocks, i, j) ==
    IF j > Len(blocks) THEN <<>>
    ELSE (IF i \in blocks[j].input_names THEN <<j>> ELSE <<>>)
             \o SuccessorsFrom(blocks, i, j + 1)
Successors(blocks, i) == SuccessorsFrom(blocks, i, 1)

\* depth-first traversal with the three marks unvisited, in progress and
\* done: a successor that is in progress closes a cycle
RECURSIVE VisitBlock(_, _, _)
RECURSIVE VisitEach(_, _, _)
VisitBlock(blocks, i, mark) ==
    LET r == VisitEach(blocks, Successors(blocks, i),
                       [mark EXCEPT ![i] = "in progress"])
    IN  IF r.cycle THEN r
        ELSE [cycle |-> FALSE, mark |-> [r.mark EXCEPT ![i] = "done"]]
VisitEach(blocks, todo, mark) ==
    IF todo = <<>> THEN [cycle |-> FALSE, mark |-> mark]
    ELSE IF mark[Head(todo)] = "in progress" THEN [cycle |-> TRUE, mark |-> mark]
    ELSE IF mark[Head(todo)] = "done" THEN VisitEach(blocks, Tail(todo), mark)
    ELSE LET r == VisitBlock(blocks, Head(todo), mark)
         IN  IF r.cycle THEN r ELSE VisitEach(blocks, Tail(todo), r.mark)

RECURSIVE VisitFrom(_, _, _)
VisitFrom(blocks, i, mark) ==
    IF i > Len(blocks) THEN FALSE
    ELSE IF mark[i] # "unvisited" THEN VisitFrom(blocks, i + 1, mark)
    ELSE LET r == VisitBlock(blocks, i, mark)
         IN  r.cycle \/ VisitFrom(blocks, i + 1, r.mark)

CycleFound(blocks) ==
    VisitFrom(blocks, 1, [i \in 1..Len(blocks) |-> "unvisited"])

\* the validation of the block graph when the Network is built: the error
\* it raises, None when the graph is valid
ValidateBlockGraph(blocks) ==
    IF CycleFound(blocks) THEN "ValueError: Cycle found in the network"
    ELSE IF \E i \in 1..(Len(blocks) - 1) : Successors(blocks, i) = <<>>
    THEN "ValueError: <name> has no successors"
    ELSE None

\* a variant of NetworkOfSetting that builds the model without validating it
NetworkUnvalidated(blocks) == [err |-> None, blocks |-> blocks]

\* self.model = networks.Network(self.setting.model, self.setting.trainer)
\* in Trainer._prepare_training: the Network, or the error of its validation
NetworkOfSetting(blocks) ==
    [err |-> ValidateBlockGraph(blocks), blocks |-> blocks]

\* the setting of the run whose model holds the block list: a run from
\* scratch into an output directory that does not exist
NetworkSetting == [model |-> "mlp2", trainer |-> BaseTrainerSetting]

\* trainer.Trainer(main_setting) on a setting whose model is the block list,
\* after the output directory of an earlier run was removed
InitNetwork ==
    /\ fs = NoFiles
    /\ pc = "constructed"
    /\ caller = [setting |-> NetworkSetting, optuna_trial |-> FALSE,
                 y_layout |-> "joined"]
    /\ tr = NewTrainer(NetworkSetting, FALSE)
    /\ engine = NewEngine
    /\ stopper = NewStopper
    /\ metrics = <<>>
    /\ steps = 0
    /\ result = <<>>
    /\ resumed = FALSE
    /\ sel = NoSel
    /\ inf = NoInf
    /\ \E blocks \in BlockLists : call = [fn |-> "network", blocks |-> blocks]

\* Trainer.train() up to the start of self.trainer.run: mkdir of the output
\* directory comes first, then _prepare_training builds the Network, whose
\* error leaves train() with the empty directory made and self.model unset;
\* settings.yml and the header of log.csv are written after that
TrainNetwork ==
    /\ call.fn = "network"
    /\ pc = "constructed"
    /\ LET out == tr.setting.trainer.output_directory
       IN  IF fs[out].exists
           THEN /\ tr' = Raised(tr, "FileExistsError: output_directory")
                /\ pc' = "failed"
                /\ fs' = fs
           ELSE LET made == [fs EXCEPT ![out] = [NoDir EXCEPT !.exists = TRUE]]
                    model == NetworkOfSetting(call.blocks)
                    t == IF model.err # None THEN Raised(tr, model.err)
                         ELSE PrepareTraining(tr, made)
                IN  /\ tr' = t
                    /\ IF t.err # None
                       THEN /\ pc' = "failed"
                            /\ fs' = made
                       ELSE /\ pc' = "running"
                            /\ fs' = [made EXCEPT
                                   ![t.setting.trainer.output_directory] =
                                       [@ EXCEPT !.yamls = <<t.setting>>,
                                                 !.has_log = TRUE, !.log = <<>>]]
    /\ engine' = NewEngine
    /\ stopper' = NewStopper
    /\ metrics' = <<>>
    /\ UNCHANGED <<caller, steps, result, resumed, sel, inf, call>>

\* train() on the block list: self.trainer.run is the epoch loop of every
\* run, update_model on each batch and the EPOCH_COMPLETED handlers
NextNetwork ==
    \/ TrainNetwork
    \/ UpdateModel
    \/ EpochCompleted
    \/ TrainReturn

SpecNetwork == InitNetwork /\ [][NextNetwork]_vars

\* the references of the block list contain a directed cycle: some blocks
\* p[1], ..., p[k] with p[i] read by p[i + 1] and p[k] read by p[1]
HasDirectedCycle(blocks) ==
    \E k \in 1..Len(blocks) : \E p \in [1..k -> 1..Len(blocks)] :
        /\ \A i \in 1..(k - 1) : p[i] \in blocks[p[i + 1]].input_names
        /\ p[k] \in blocks[p[1]].input_names

\* C20: for every block list whose input and output references contain a
\* directed cycle, train() fails with ValueError 'Cycle found in the network'
\* when the network is built, and no training epoch is executed: the engine
\* starts no epoch, the optimizer takes no step, and no row of log.csv and no
\* snapshot is written.
C20_CycleRejectedBeforeTraining ==
    (call.fn = "network" /\ HasDirectedCycle(call.blocks)) =>
        /\ pc \in {"constructed", "failed"}
        /\ pc = "failed" => tr.err = "ValueError: Cycle found in the network"
        /\ engine.epoch = 0 /\ engine.batch = 0
        /\ steps = 0 /\ tr.optimizer.step = 0 /\ tr.model = <<>>
        /\ \A d \in Dirs : fs[d].log = <<>> /\ fs[d].snapshots = <<>>

\* C20 witness: train() failed on a list of three blocks that read each other
\* in a ring, none of them reading itself; the output directory it made is
\* there, empty
C20_Witness ==
    /\ call.fn = "network" /\ pc = "failed"
    /\ Len(call.blocks) = 3
    /\ \A i \in 1..3 : i \notin call.blocks[i].input_names
    /\ 3 \in call.blocks[1].input_names
    /\ 1 \in call.blocks[2].input_names
    /\ 2 \in call.blocks[3].input_names
    /\ tr.err = "ValueError: Cycle found in the network"
    /\ fs["out"] = [NoDir EXCEPT !.exists = TRUE]

\* ---------------------------------------------------------------- cadence
\* epochs of the run whose EPOCH_COMPLETED handlers have all returned
CompletedEpochs ==
    IF pc \in {"running", "failed"} /\ engine.batch > 0
    THEN engine.epoch - 1 ELSE engine.epoch

\* the session started training: train() got past _prepare_training
RunStarted ==
    \/ pc \in {"running", "finished", "done", "pruned"}
    \/ pc = "failed" /\ engine.epoch > 0

\* the run ended because the file system refused a write
WriteFailed == pc = "failed" /\ tr.err \in {"OSError: torch.save", "OSError: log.csv"}

\* the epochs of the entries of a sequence of rows or files are
\* every, 2 * every, ..., up to the last multiple that is at most `epochs`
FollowsCadence(entries, every, epochs) ==
    /\ Len(entries) = epochs \div every
    /\ \A i \in 1..Len(entries) : entries[i].epoch = i * every

\* C21: after E completed epochs of a run, log.csv holds the header and
\* floor(E / log_trigger_epoch) rows whose epochs are L, 2L, 3L, ... in
\* increasing order, exactly one snapshot file was written for each of these
\* epochs, and no evaluation happens when an epoch that is not a multiple of
\* L completes.
C21_LoggingCadence ==
    /\ [](RunStarted =>
            LET every == tr.setting.trainer.log_trigger_epoch
                d == fs[tr.setting.trainer.output_directory]
            IN  /\ d.has_log
                /\ FollowsCadence(d.log, every, CompletedEpochs)
                /\ \/ FollowsCadence(d.snapshots, every, CompletedEpochs)
                   \/ /\ pc = "failed"
                      /\ FollowsCadence(d.snapshots, every, engine.epoch))
    /\ [][(pc = "running" /\ metrics' # metrics)
            => engine.epoch % tr.setting.trainer.log_trigger_epoch = 0]_vars

\* C21 witness: three epochs of a run that logs every second epoch are
\* complete, with one row and one snapshot, of epoch 2
C21_Witness ==
    /\ pc = "done" /\ engine.epoch = 3
    /\ tr.setting.trainer.log_trigger_epoch = 2
    /\ Len(fs[tr.setting.trainer.output_directory].log) = 1
    /\ fs[tr.setting.trainer.output_directory].log[1].epoch = 2
    /\ fs[tr.setting.trainer.output_directory].snapshots[1].epoch = 2

\* ---------------------------------------------------------- early stopping
\* the last batch of the epoch is done and its EPOCH_COMPLETED handlers are
\* about to run
EpochCompleting == pc = "running" /\ engine.batch = TrainLoaderLength(tr)

\* a > b for floats
FloatGT(a, b) == ~IsNaN(a) /\ ~IsNaN(b) /\ a > b

\* C22: early stopping is evaluated exactly when a multiple of
\* stop_trigger_epoch completes, with the score -(validation loss); the
\* counter grows by one at each evaluation whose score does not exceed the
\* best score so far and is reset to zero on improvement, and the run is
\* stopped at the first evaluation at which the counter reaches patience
\* (epochs whose writes the file system refuses aside).
C22_EarlyStoppingCadence ==
    [][(EpochCompleting /\ ~WriteFailed') =>
        LET t == tr.setting.trainer
        IN  IF engine.epoch % t.stop_trigger_epoch # 0
            THEN stopper' = stopper /\ ~engine'.should_terminate
            ELSE /\ pc' # "failed"
                 /\ metrics' # <<>>
                 /\ LET score == Neg(metrics'[1])
                    IN  IF stopper.best_score = <<>>
                        THEN stopper' = [best_score |-> <<score>>, counter |-> 0]
                        ELSE IF FloatGT(score, stopper.best_score[1])
                        THEN stopper' = [best_score |-> <<score>>, counter |-> 0]
                        ELSE stopper'.counter = stopper.counter + 1
                 /\ engine'.should_terminate <=> stopper'.counter >= t.patience
                 /\ (engine'.should_terminate /\ pc' # "pruned") => pc' = "finished"
    ]_vars


\* C27: whenever the early-stopping score is evaluated at an epoch, the
\* validation loss it reads was computed at that same epoch of the run: the
\* score is never read before a validation evaluation exists, and the row
\* logged last is that of the epoch being completed (epochs whose writes the
\* file system refuses aside).
C27_ScoreReadsLossOfSameEpoch ==
    [][(/\ EpochCompleting
        /\ StopTriggerFires(tr.setting.trainer, engine.epoch)
        /\ ~WriteFailed') =>
        LET log == fs'[tr.setting.trainer.output_directory].log
        IN  /\ pc' # "failed"
            /\ metrics' # <<>>
            /\ log # <<>>
            /\ log[Len(log)].epoch = engine.epoch
            /\ log[Len(log)].validation_loss = Format5e(metrics'[1])
    ]_vars


\* ------------------------------------------------------------- termination
\* the engine runs every batch and every handler of a run it started, and
\* train() returns when the engine did
SpecFair ==
    Spec /\ WF_vars(UpdateModel) /\ WF_vars(EpochCompleted) /\ WF_vars(TrainReturn)

\* the terminal states of a run
Completed ==
    /\ pc \in {"finished", "done"} /\ ~engine.should_terminate
    /\ engine.epoch = tr.setting.trainer.n_epoch
StoppedEarly == pc \in {"finished", "done"} /\ engine.should_terminate
Pruned == pc = "pruned"

\* C23: every training run that passes initialisation eventually reaches
\* one terminal state, completed after epoch n_epoch, stopped early or
\* pruned (a run whose writes the file system refuses aside); it never
\* executes more than n_epoch epochs, and it is stopped or pruned only when
\* an epoch completes.
C23_RunReachesTerminalState ==
    /\ [](RunStarted => engine.epoch <= tr.setting.trainer.n_epoch)
    /\ [][(pc = "running" /\ pc' \in {"finished", "pruned"})
             => engine.batch = TrainLoaderLength(tr)]_vars
    /\ (pc = "running") ~> (Completed \/ StoppedEarly \/ Pruned \/ WriteFailed)


\* ------------------------------------------------------ loss mode selection
\* a variant of LossCalculator_init that tests output_is_dict first
LossCalculator_init_dict_first(time_series, output_is_dict) ==
    IF output_is_dict THEN "loss_function_dict"
    ELSE IF time_series THEN "loss_function_time_with_padding"
    ELSE "loss_function_without_padding"

\* LossCalculator.__init__: the method bound to self.loss
LossCalculator_init(time_series, output_is_dict) ==
    IF time_series THEN "loss_function_time_with_padding"
    ELSE IF output_is_dict THEN "loss_function_dict"
    ELSE "loss_function_without_padding"

\* Trainer._create_loss_function(pad) with pad True or False
CreateLossFunctionWithPad(t, pad) ==
    IF pad
    THEN IF t.time_series THEN "loss_function_time_with_padding"
         ELSE "loss_function_with_padding"
    ELSE "loss_function_without_padding"

\* the trainer settings the loss function is created for
LossModeSettings ==
    {[BaseTrainerSetting EXCEPT !.batch_size = b, !.time_series = ts,
                                !.element_wise = ew] :
        b \in {1, 2}, ts \in BOOLEAN, ew \in BOOLEAN}

InitLossMode ==
    /\ fs = [d \in Dirs |-> NoDir]
    /\ pc = "new"
    /\ caller = NoCaller
    /\ tr = NewTrainer(None, FALSE)
    /\ engine = NewEngine
    /\ stopper = NewStopper
    /\ metrics = <<>>
    /\ steps = 0
    /\ result = <<>>
    /\ resumed = FALSE
    /\ sel = NoSel
    /\ inf = NoInf
    /\ \E t \in LossModeSettings, output_is_dict \in BOOLEAN,
          pad \in {None, "True", "False"} :
          call = [fn |-> "loss mode", stage |-> "new", class |-> None,
                  trainer |-> t, output_is_dict |-> output_is_dict, pad |-> pad,
                  loss |-> None, calls |-> 0, called |-> None]

\* LossCalculator(time_series=..., output_is_dict=...)
ConstructLossCalculator ==
    /\ call.fn = "loss mode" /\ call.stage = "new"
    /\ call.pad = None
    /\ call' = [call EXCEPT
                   !.stage = "constructed", !.class = "LossCalculator",
                   !.loss = LossCalculator_init(call.trainer.time_series,
                                                call.output_is_dict)]
    /\ UNCHANGED <<fs, pc, caller, tr, engine, stopper, metrics, steps, result,
                   resumed, sel, inf>>

\* self.loss = self._create_loss_function(pad) of a Trainer or an Inferer
CreateTrainerLoss ==
    /\ call.fn = "loss mode" /\ call.stage = "new"
    /\ ~call.output_is_dict
    /\ call' = [call EXCEPT
                   !.stage = "constructed", !.class = "Trainer",
                   !.loss = IF call.pad = None
                            THEN CreateLossFunction(call.trainer,
                                     DetermineElementWise(call.trainer))
                            ELSE CreateLossFunctionWithPad(call.trainer,
                                     call.pad = "True")]
    /\ UNCHANGED <<fs, pc, caller, tr, engine, stopper, metrics, steps, result,
                   resumed, sel, inf>>

\* self.loss(y_pred, y, original_shapes): the function bound at construction
\* is the one called
CallLoss ==
    /\ call.fn = "loss mode" /\ call.stage = "constructed"
    /\ call.calls < MaxCalls
    /\ call' = [call EXCEPT !.calls = @ + 1, !.called = call.loss]
    /\ UNCHANGED <<fs, pc, caller, tr, engine, stopper, metrics, steps, result,
                   resumed, sel, inf>>

NextLossMode == ConstructLossCalculator \/ CreateTrainerLoss \/ CallLoss

SpecLossMode == InitLossMode /\ [][NextLossMode]_vars

PaddedModes == {"loss_function_time_with_padding", "loss_function_with_padding"}

\* C24 as stated: the mode is chosen once at construction; the plain path is
\* selected whenever the batch size is 1 or the data is not a time series
\* (outputs not a dict), and a padded path only for a time series with a
\* batch size above 1.
C24_PlainUnlessBatchedTimeSeries ==
    (call.fn = "loss mode" /\ call.stage = "constructed") =>
        /\ ((call.trainer.batch_size = 1 \/ ~call.trainer.time_series)
                /\ ~call.output_is_dict)
              => call.loss = "loss_function_without_padding"
        /\ call.loss \in PaddedModes
              => (call.trainer.time_series /\ call.trainer.batch_size > 1)
        /\ call.calls > 0 => call.called = call.loss

\* C24 amended: the mode is chosen once at construction and every call uses
\* it.  LossCalculator chooses from its two flags alone: the padded
\* time-series path exactly when time_series is set, whatever the batch size,
\* else the dict path exactly when output_is_dict is set, else the plain
\* path.  Trainer._create_loss_function chooses the plain path exactly when
\* pad is False, or pad is None and the trainer is element-wise or its batch
\* size is 1; otherwise the padded time-series path for a time series and
\* the padded path for other data.
C24_LossModeSelection ==
    (call.fn = "loss mode" /\ call.stage = "constructed") =>
        LET t == call.trainer
            plain == \/ call.pad = "False"
                     \/ /\ call.pad = None
                        /\ \/ t.batch_size = 1
                           \/ t.element_wise /\ ~t.time_series
        IN  /\ call.class = "LossCalculator" =>
                /\ call.loss = "loss_function_time_with_padding" <=> t.time_series
                /\ call.loss = "loss_function_dict"
                      <=> (~t.time_series /\ call.output_is_dict)
                /\ call.loss = "loss_function_without_padding"
                      <=> (~t.time_series /\ ~call.output_is_dict)
            /\ call.class = "Trainer" =>
                /\ call.loss = "loss_function_without_padding" <=> plain
                /\ call.loss = "loss_function_time_with_padding"
                      <=> (~plain /\ t.time_series)
                /\ call.loss = "loss_function_with_padding"
                      <=> (~plain /\ ~t.time_series)
            /\ call.calls > 0 => call.called = call.loss

\* C24 witness: a LossCalculator built for a time series was called on a
\* batch of one sample and used the padded time-series path
C24_Witness ==
    /\ call.fn = "loss mode" /\ call.class = "LossCalculator"
    /\ call.trainer.time_series /\ call.trainer.batch_size = 1
    /\ call.calls > 0
    /\ call.called = "loss_function_time_with_padding"


\* ------------------------------------------------- positional weight load
\* Here a tensor is [shape |-> s, data |-> x]; the live model is a fresh
\* two-parameter network, and a checkpoint holds up to MaxEntries tensors
\* under distinct names, the i-th with the data 10 + i.
MaxEntries == 3

CheckpointKeys == {"w0", "b0", "module.w0", "module.b0"}
Shapes == {1, 2}

LiveModel ==
    << [key |-> "w0", value |-> [shape |-> 2, data |-> 0]],
       [key |-> "b0", value |-> [shape |-> 1, data |-> 0]] >>

CheckpointStateDicts ==
    UNION {{[i \in 1..n |-> [key |-> keys[i],
                              value |-> [shape |-> shapes[i], data |-> 10 + i]]] :
               keys \in {k \in [1..n -> CheckpointKeys] :
                            \A i, j \in 1..n : i # j => k[i] # k[j]},
               shapes \in [1..n -> Shapes]} :
           n \in 1..MaxEntries}

\* model.load_state_dict(state_dict), strict, with the shapes of the tensors:
\* an entry is copied when the model has its key with the same shape; the
\* call raises RuntimeError when a key is missing or unexpected or a shape
\* differs
LoadStateDictSized(model, state_dict) ==
    LET given == {state_dict[j].key : j \in 1..Len(state_dict)}
        live == {model[i].key : i \in 1..Len(model)}
        Entry(k) == state_dict[CHOOSE j \in 1..Len(state_dict) : state_dict[j].key = k]
        mismatch == {model[i].key : i \in {i \in 1..Len(model) :
                        /\ model[i].key \in given
                        /\ Entry(model[i].key).value.shape # model[i].value.shape}}
    IN  [missing_keys |-> live \ given,
         unexpected_keys |-> given \ live,
         size_mismatch |-> mismatch,
         err |-> IF live = given /\ mismatch = {} THEN None
                 ELSE "RuntimeError: Error(s) in loading state_dict",
         model |-> [i \in 1..Len(model) |->
                      IF model[i].key \in given \ mismatch
                      THEN [key |-> model[i].key, value |-> Entry(model[i].key).value]
                      ELSE model[i]]]

InitPretrain ==
    /\ fs = [d \in Dirs |-> NoDir]
    /\ pc = "new"
    /\ caller = NoCaller
    /\ tr = NewTrainer(None, FALSE)
    /\ engine = NewEngine
    /\ stopper = NewStopper
    /\ metrics = <<>>
    /\ steps = 0
    /\ result = <<>>
    /\ resumed = FALSE
    /\ sel = NoSel
    /\ inf = NoInf
    /\ \E state_dict \in CheckpointStateDicts :
          call = [fn |-> "pretrain", stage |-> "read", model |-> LiveModel,
                  checkpoint |-> state_dict, model_state_dict |-> <<>>,
                  missing_keys |-> {}, unexpected_keys |-> {},
                  size_mismatch |-> {}, err |-> None]

\* _load_pretrained_model_if_needed after torch.load: the test of the
\* lengths
CheckLength ==
    /\ call.fn = "pretrain" /\ call.stage = "read"
    /\ call' = IF Len(call.model) # Len(call.checkpoint)
               THEN [call EXCEPT !.stage = "raised",
                        !.err = "ValueError: Model parameter length invalid"]
               ELSE [call EXCEPT !.stage = "checked"]
    /\ UNCHANGED <<fs, pc, caller, tr, engine, stopper, metrics, steps, result,
                   resumed, sel, inf>>

\* the new state_dict and self.model.load_state_dict(model_state_dict)
LoadConverted ==
    /\ call.fn = "pretrain" /\ call.stage = "checked"
    /\ LET converted == ZipStateDict(call.model, call.checkpoint)
           r == LoadStateDictSized(call.model, converted)
       IN  call' = [call EXCEPT
                       !.stage = IF r.err = None THEN "loaded" ELSE "raised",
                       !.model_state_dict = converted,
                       !.model = r.model,
                       !.missing_keys = r.missing_keys,
                       !.unexpected_keys = r.unexpected_keys,
                       !.size_mismatch = r.size_mismatch,
                       !.err = r.err]
    /\ UNCHANGED <<fs, pc, caller, tr, engine, stopper, metrics, steps, result,
                   resumed, sel, inf>>

NextPretrain == CheckLength \/ LoadConverted

SpecPretrain == InitPretrain /\ [][NextPretrain]_vars

\* C25: the pretrain / inference weight load is positional.  When the
\* checkpoint has as many entries as the live model, the i-th checkpoint
\* tensor in stored order is assigned to the i-th live key for every i and
\* the checkpoint's names are ignored: no missing or unexpected key is
\* reported whatever the names, and when the tensors fit the load succeeds
\* with the i-th live parameter holding the i-th checkpoint tensor.
C25_PositionalLoad ==
    (/\ call.fn = "pretrain"
     /\ Len(call.checkpoint) = Len(LiveModel)
     /\ call.stage \in {"loaded", "raised"}) =>
        /\ Len(call.model_state_dict) = Len(LiveModel)
        /\ \A i \in 1..Len(LiveModel) :
              /\ call.model_state_dict[i].key = LiveModel[i].key
              /\ call.model_state_dict[i].value = call.checkpoint[i].value
        /\ call.missing_keys = {} /\ call.unexpected_keys = {}
        /\ (\A i \in 1..Len(LiveModel) :
               call.checkpoint[i].value.shape = LiveModel[i].value.shape)
             => /\ call.stage = "loaded"
                /\ \A i \in 1..Len(LiveModel) :
                      call.model[i] = [key |-> LiveModel[i].key,
                                       value |-> call.checkpoint[i].value]

\* C25 witness: a checkpoint that stores b0 before w0 was loaded: the live
\* w0 holds the tensor stored as b0
C25_Witness ==
    /\ call.fn = "pretrain" /\ call.stage = "loaded"
    /\ call.checkpoint[1].key = "b0" /\ call.checkpoint[2].key = "w0"
    /\ call.model[1].key = "w0"
    /\ call.model[1].value = call.checkpoint[1].value


\* ---------------------------------------------------- rows and snapshots
\* C26: in every state of a training run, each epoch that appears in a row
\* of log.csv has its snapshot file in the output directory (the snapshot is
\* written before the row, and a failed snapshot write leaves no row), so
\* that what `best` and `train_best` select in that directory is a file
\* that exists.
C26_LoggedEpochsHaveSnapshots ==
    RunStarted =>
        LET d == fs[tr.setting.trainer.output_directory]
        IN  /\ \A i \in 1..Len(d.log) :
                  /\ LoadSnapshot(d, d.log[i].epoch) # <<>>
                  /\ LoadSnapshot(d, d.log[i].epoch)[1].epoch = d.log[i].epoch
            /\ \A method \in {"best", "train_best"} :
                  Trainer_select_snapshot(d, method).err = None =>
                      LoadSnapshot(d, Trainer_select_snapshot(d, method).epoch) # <<>>

\* C26 witness: the run logged epoch 1 and failed when torch.save raised at
\* epoch 2: one row, one snapshot, and `best` selects the file of epoch 1
C26_Witness ==
    /\ pc = "failed" /\ tr.err = "OSError: torch.save"
    /\ engine.epoch = 2
    /\ Len(fs[tr.setting.trainer.output_directory].log) = 1
    /\ Trainer_select_snapshot(fs[tr.setting.trainer.output_directory], "best")
           = Ok(1)
    /\ LoadSnapshot(fs[tr.setting.trainer.output_directory], 1) # <<>>


\* ------------------------------------------------- frame of the restart load
\* C28: the restart load changes only the model parameters, the optimizer
\* state and the epoch counter: after _load_restart_model_if_needed has
\* returned, the trainer's loss function is the one _prepare_training
\* created and its data loaders and engines are those it had.
C28_RestartLoadKeepsLossFunction ==
    (tr.restart_loaded /\ tr.err # "KeyError: 'loss'") =>
        /\ tr.loss = CreateLossFunction(tr.setting.trainer, tr.element_wise)
        /\ tr.engines
        /\ tr.batch_size =
               GenerateTrainerBatchSize(tr.setting.trainer, tr.element_wise).batch_size


\* ------------------------------------------ the argument of _prepare_inference
NeitherMessage == "ValueError: model is neither file, directory, nor buffer."

\* C29: _prepare_inference classifies every model argument: an open binary
\* handle, an existing file or an existing directory leads to a model load;
\* every other argument, a str or Path that names neither an existing file
\* nor an existing directory included, is rejected with ValueError
\* '<model> is neither file, directory, nor buffer.' before any network is
\* constructed; None without a pretrain_directory is a ValueError as well.
C29_EveryModelArgumentClassified ==
    (inf.kind # "off" /\ pc \in {"inference", "failed"}) =>
        /\ (inf.kind \in {"handle", "file"} \/ (inf.kind = "path" /\ fs[inf.dir].exists))
              => tr.err \notin {NeitherMessage, "UnboundLocalError: model_file"}
        /\ (inf.kind = "other" \/ (inf.kind = "path" /\ ~fs[inf.dir].exists))
              => (pc = "failed" /\ tr.err = NeitherMessage /\ tr.model = <<>>)
        /\ (inf.kind = "none" /\ caller.setting.trainer.pretrain_directory = None
                /\ caller.setting.trainer.restart_directory = None)
              => (/\ pc = "failed"
                  /\ tr.err = "ValueError: No pretrain directory is specified for inference."
                  /\ tr.model = <<>>)


\* ------------------------------------------------------- accomodate_length
\* A time series is the sequence of its steps, a step a number.
MaxSteps == 3
MaxAccomodate == 4

\* x[:n] and x[n:] of numpy and torch: the slice is clipped to the sequence
SliceUpTo(x, n) == SubSeq(x, 1, Min({n, Len(x)}))
SliceFrom(x, n) == IF n >= Len(x) THEN <<>> ELSE SubSeq(x, n + 1, Len(x))

\* np.concatenate([x[:accomodate_length], x]) when accomodate_length is set
\* (0 stands for None and for 0)
AccomodateInput(x, accomodate_length) ==
    IF accomodate_length # 0 THEN SliceUpTo(x, accomodate_length) \o x ELSE x

\* a variant of DiscardAccomodated that keeps every step
KeepAccomodated(s, accomodate_length) == s

\* inferred_y[accomodate_length:] and x[accomodate_length:]
DiscardAccomodated(s, accomodate_length) ==
    IF accomodate_length # 0 THEN SliceFrom(s, accomodate_length) ELSE s

\* self.model(...) on a time series: one output step per input step, each
\* depending on the steps up to it (a recurrent network)
RECURSIVE RunModel(_)
RunModel(x) ==
    IF x = <<>> THEN <<>>
    ELSE LET before == RunModel(SubSeq(x, 1, Len(x) - 1))
         IN  Append(before,
                    ((IF before = <<>> THEN 0 ELSE before[Len(before)])
                        + x[Len(x)] + 1) % 3)

TimeSeriesInputs == UNION {[1..n -> {0, 1}] : n \in 1..MaxSteps}

InitInfer ==
    /\ fs = [d \in Dirs |-> NoDir]
    /\ pc = "new"
    /\ caller = NoCaller
    /\ tr = NewTrainer(None, FALSE)
    /\ engine = NewEngine
    /\ stopper = NewStopper
    /\ metrics = <<>>
    /\ steps = 0
    /\ result = <<>>
    /\ resumed = FALSE
    /\ sel = NoSel
    /\ inf = NoInf
    /\ \E x \in TimeSeriesInputs, a \in 0..MaxAccomodate :
          call = [fn |-> "infer", stage |-> "called", input |-> x,
                  accomodate_length |-> a, x |-> x, inferred_y |-> <<>>]

\* _infer_single_data up to the inference: the input is extended and fed to
\* the model
InferModel ==
    /\ call.fn = "infer" /\ call.stage = "called"
    /\ LET x == AccomodateInput(call.x, call.accomodate_length)
       IN  call' = [call EXCEPT !.stage = "inferred", !.x = x,
                                !.inferred_y = RunModel(x)]
    /\ UNCHANGED <<fs, pc, caller, tr, engine, stopper, metrics, steps, result,
                   resumed, sel, inf>>

\* _infer_single_data after the inference: the accomodated steps are cut
\* from the prediction and from the input
CutAccomodated ==
    /\ call.fn = "infer" /\ call.stage = "inferred"
    /\ call' = [call EXCEPT
                   !.stage = "returned",
                   !.x = DiscardAccomodated(@, call.accomodate_length),
                   !.inferred_y = DiscardAccomodated(@, call.accomodate_length)]
    /\ UNCHANGED <<fs, pc, caller, tr, engine, stopper, metrics, steps, result,
                   resumed, sel, inf>>

NextInfer == InferModel \/ CutAccomodated

SpecInfer == InitInfer /\ [][NextInfer]_vars

\* the last n entries of a sequence
LastSteps(s, n) == [i \in 1..n |-> s[Len(s) - n + i]]

\* C30 as stated: for every input of T time steps and every
\* accomodate_length a >= 1 the model is fed the first a steps followed by
\* the full input, the first a predicted steps are discarded, and the
\* returned input and prediction both have T steps, the returned input being
\* the original input.
C30_AccomodateLengthTransparent ==
    (call.fn = "infer" /\ call.accomodate_length >= 1) =>
        LET T == Len(call.input)
            a == call.accomodate_length
        IN  /\ call.stage = "inferred" => Len(call.x) = a + T
            /\ call.stage = "returned" =>
                  /\ Len(call.x) = T
                  /\ Len(call.inferred_y) = T
                  /\ call.x = call.input

\* C30 amended: for an input of T time steps and 1 <= a <= T the model is fed
\* the first a steps followed by the full input, the first a predicted
\* steps are discarded, and the returned input and prediction have T steps,
\* the returned input being the original input.  For a > T the model is fed
\* the input twice, and what is returned are the last max(2T - a, 0) steps
\* of the input and of the prediction.
C30_AccomodateLengthWithinInput ==
    (call.fn = "infer" /\ call.accomodate_length >= 1) =>
        LET T == Len(call.input)
            a == call.accomodate_length
            fed == IF a <= T THEN SubSeq(call.input, 1, a) \o call.input
                   ELSE call.input \o call.input
            kept == IF a <= T THEN T ELSE Max({2 * T - a, 0})
        IN  /\ call.stage = "inferred" =>
                  (call.x = fed /\ call.inferred_y = RunModel(fed))
            /\ call.stage = "returned" =>
                  /\ call.x = LastSteps(call.input, kept)
                  /\ call.inferred_y = LastSteps(RunModel(fed), kept)
                  /\ a <= T => call.x = call.input

\* C30 witness: an input of three steps came back unchanged after two
\* accomodated steps were fed and cut
C30_Witness ==
    /\ call.fn = "infer" /\ call.stage = "returned"
    /\ call.accomodate_length = 2
    /\ Len(call.input) = 3
    /\ call.input[1] # call.input[2]
    /\ call.x = call.input
    /\ Len(call.inferred_y) = 3

====
